---------------------------- MODULE Spec2Model ----------------------------
(***************************************************************************)
(* A model of the libTAS in-process library:                               *)
(*   - the frame boundary (src/src/library/frame.cpp): frameBoundary,      *)
(*     skipDraw, screen_redraw and the receive_messages loop, driven by a  *)
(*     controller that may send any message at every receive;              *)
(*   - the pthread wrappers (src/unnamed/part_000): the trampoline         *)
(*     pthread_start and pthread_create/exit/join/detach/tryjoin/timedjoin *)
(*     over the ThreadManager registry;                                    *)
(*   - the save-file registry (src/src/library/fileio/SaveFileList.cpp).   *)
(* ThreadManager, ThreadSync and the checkpoint engine are not part of the *)
(* source at hand; their operators are modelled from the specification.   *)
(***************************************************************************)
EXTENDS Integers, Sequences, FiniteSets, TLC

VARIABLES
    \* ---- frame.cpp ----
    framecount,         \* unsigned long framecount
    didASavestate,      \* static bool didASavestate
    skipping_draw,      \* extern bool skipping_draw
    skip_counter,       \* static unsigned int skip_counter of skipDraw
    shared_config,      \* the fields of SharedConfig that frame.cpp reads
    fps,                \* static float fps of frameBoundary
    saveBacktrack,      \* extern bool saveBacktrack
    is_exiting,         \* extern bool is_exiting
    avencoder,          \* whether the avencoder object exists
    drawFB,             \* argument drawFB of the frameBoundary call in progress
    fpc,                \* position of the main thread in frameBoundary
    snapshot,           \* the memory image held by the checkpoint engine
    restoreInProgress,  \* ThreadManager::restoreInProgress
    sent,               \* messages sent to the controller in the current call, per tag
    nmsgs,              \* messages received from the controller in the current call
    calls,              \* observer: number of frameBoundary calls made
    draws,              \* observer: number of invocations of the draw callback
    restores,           \* observer: number of snapshot restores performed
    endSeen,            \* observer: how the receive loop of the current call ended
    ticks,              \* detTimer: the virtual time getTicks() returns
    channel,            \* the control channel: "up", or "broken" once the controller has gone
    trace,              \* observer: what the call in progress did, in order (when recorded)
    \* ---- pthread wrappers ----
    recycle_threads,    \* shared_config.recycle_threads, as delivered at start-up
    threads,            \* the ThreadInfo registry of ThreadManager, by slot
    os,                 \* the OS threads running pthread_start, by pthread_t
    uninit,             \* ThreadSync's count of threads not yet initialized
    lock,               \* holder of the wrapper execution lock (NoHolder if free)
    cpc,                \* per calling thread, the wrapper call in progress
    created,            \* observer: number of pthread_create calls that returned 0
    spawned,            \* observer: number of OS threads orig::pthread_create made
    hist,               \* observer: per logical thread, what happened to it
    maxRunning,         \* observer: most slots in state RUNNING at one time
    maxLive,            \* observer: most logical threads not yet released at one time
    \* ---- SaveFileList.cpp ----
    savefiles,          \* static std::forward_list<std::unique_ptr<SaveFile>> savefiles, front first
    filecall            \* observer: the last SaveFileList call made and what it returned

frameVars == <<framecount, didASavestate, skipping_draw, skip_counter, shared_config,
               fps, saveBacktrack, is_exiting, avencoder, drawFB, fpc, snapshot,
               restoreInProgress, sent, nmsgs, calls, draws, restores,
               endSeen, ticks, channel, trace>>

threadVars == <<recycle_threads, threads, os, uninit, lock, cpc, created,
                 spawned, hist, maxRunning, maxLive>>

fileVars == <<savefiles, filecall>>

vars == <<frameVars, threadVars, fileVars>>

--------------------------------------------------------------------------
(* Bounds of the model *)

\* frameBoundary calls explored under Spec
MaxFrames == 2
\* controller messages handled per frameBoundary call (end-of-frame excluded)
MaxMsgs == 2
\* frameBoundary calls of the "skip all rendering" scenario
ScenarioFrames == 100
\* ThreadInfo records, and OS threads, of the thread specification
MaxThreads == 2
\* successful pthread_create calls of the thread specification
MaxCreates == 2

\* The threads of the recycling scenario: so many are created, then so many again
ScenarioThreads == 4

\* latest deadline, in ticks, a condition wait is called with
MaxAbstime == 4

\* The frame rates of the skip decisions are the fractions n / FpsDen, n up
\* to MaxFpsNum; MaxDecisions decisions are taken
FpsDen == 2
MaxFpsNum == 140
MaxDecisions == 6

--------------------------------------------------------------------------
(* SharedConfig, as far as frame.cpp reads it *)

ConfigSet ==
    [fastforward : BOOLEAN, running : BOOLEAN, av_dumping : BOOLEAN,
     ff_rendering : BOOLEAN, save_screenpixels : BOOLEAN,
     backtrack_savestate : BOOLEAN]

Config(ff, run, av, ffr, pix, bt) ==
    [fastforward |-> ff, running |-> run, av_dumping |-> av, ff_rendering |-> ffr,
     save_screenpixels |-> pix, backtrack_savestate |-> bt]

\* The configurations the controller delivers: one for each way skipDraw and
\* screen_redraw decide
Configs ==
    { Config(FALSE, TRUE, FALSE, FALSE, TRUE, FALSE),   \* normal speed
      Config(TRUE, FALSE, FALSE, TRUE, TRUE, TRUE),     \* frame advance
      Config(TRUE, TRUE, TRUE, TRUE, FALSE, FALSE),     \* encoding
      Config(TRUE, TRUE, FALSE, TRUE, TRUE, TRUE),      \* skip all rendering
      Config(TRUE, TRUE, FALSE, FALSE, TRUE, FALSE) }   \* skip by frequency

\* The configurations in which the "skip all rendering" mode decides the skip
SkipAllConfigs ==
    {c \in ConfigSet : c.fastforward /\ c.running /\ ~c.av_dumping /\ c.ff_rendering}

\* Values of the measured fps (a float in the code; whole numbers here)
FpsValues == {0, 60}

\* Tags of the messages the library sends
SentTags == {"FRAMECOUNT_TIME", "FPS", "DO_BACKTRACK_SAVESTATE",
             "START_FRAMEBOUNDARY", "LOADING_SUCCEEDED"}

NoSent == [t \in SentTags |-> 0]

Send(s, tag) == [s EXCEPT ![tag] = @ + 1]

NoSnapshot == [valid |-> FALSE]

--------------------------------------------------------------------------
(* skipDraw *)

RECURSIVE Pow2(_)
Pow2(n) == IF n <= 0 THEN 1 ELSE 2 * Pow2(n - 1)

RECURSIVE FloorLog2(_)
FloorLog2(n) == IF n <= 1 THEN 0 ELSE 1 + FloorLog2(n \div 2)

RECURSIVE CeilLog2(_, _)
\* The least k with 2^k * b >= a (a, b > 0)
CeilLog2(a, b) == IF b >= a THEN 0 ELSE 1 + CeilLog2(a, 2 * b)

\* floor(log2(num / den)) for num, den > 0: the unbiased exponent of the float
\* num / den
Exponent(num, den) ==
    IF num >= den THEN FloorLog2(num \div den) ELSE 0 - CeilLog2(den, num)

\* The shift count (skip_freq >> 23) - 126 - 3 for the float num / den > 0:
\* skip_freq >> 23 is its biased exponent, 127 + floor(log2(num / den))
ShiftCountOf(num, den) == (127 + Exponent(num, den)) - 126 - 3

\* skip_freq is 0 or has a single bit set, and 1U << 31 is beyond the integers
\* TLC computes with: the value is held as the position of its bit, NoBit for 0
NoBit == -1

\* The values skip_freq may take before the floor of 4 is applied, for
\* fps = num / den. A negative shift count (fps - 1 < 4) is an unsigned count
\* of 2^32 - k: the shift is undefined, and the x86 build shifts by the count
\* modulo 32.
SkipFreqsOf(num, den) ==
    IF num > den
    THEN LET c == ShiftCountOf(num - den, den)
         IN  IF c >= 0 THEN {c} ELSE {32 + c, NoBit}
    ELSE {0}

\* The same for a whole number f of frames per second
SkipFreqs(f) == SkipFreqsOf(f, 1)

\* if (skip_freq < 4) skip_freq = 4: bit 2 at least
AtLeastFour(k) == IF k < 2 THEN 2 ELSE k

\* n >= skip_freq for the skip_freq of bit k
Reaches(n, k) == k < 31 /\ n >= Pow2(k)

\* skipDraw without the test of the "skip all rendering" mode
SkipDrawByFrequencyOnly(cfg, f, counter) ==
    IF ~cfg.fastforward THEN {<<FALSE, counter>>}
    ELSE IF ~cfg.running THEN {<<FALSE, counter>>}
    ELSE IF cfg.av_dumping THEN {<<FALSE, counter>>}
    ELSE {IF Reaches(counter + 1, AtLeastFour(q)) THEN <<FALSE, 0>>
          ELSE <<TRUE, counter + 1>> : q \in SkipFreqs(f)}

\* skipDraw with the test of the "skip all rendering" mode ahead of the test
\* of AV dumping
SkipDrawModeFirst(cfg, f, counter) ==
    IF ~cfg.fastforward THEN {<<FALSE, counter>>}
    ELSE IF ~cfg.running THEN {<<FALSE, counter>>}
    ELSE IF cfg.ff_rendering THEN {<<TRUE, counter>>}
    ELSE IF cfg.av_dumping THEN {<<FALSE, counter>>}
    ELSE {IF Reaches(counter + 1, AtLeastFour(q)) THEN <<FALSE, 0>>
          ELSE <<TRUE, counter + 1>> : q \in SkipFreqs(f)}

\* if (++skip_counter >= skip_freq) { skip_counter = 0; return false; }
\* return true; with skip_freq = q raised to 4
CountSkip(counter, q) ==
    IF Reaches(counter + 1, AtLeastFour(q)) THEN <<FALSE, 0>> ELSE <<TRUE, counter + 1>>

\* skipDraw(fps) for fps = num / den: the pairs <<result, skip_counter'>> it
\* may produce
SkipDrawOf(cfg, num, den, counter) ==
    IF ~cfg.fastforward THEN {<<FALSE, counter>>}
    ELSE IF ~cfg.running THEN {<<FALSE, counter>>}
    ELSE IF cfg.av_dumping THEN {<<FALSE, counter>>}
    ELSE IF cfg.ff_rendering THEN {<<TRUE, counter>>}
    ELSE {CountSkip(counter, q) : q \in SkipFreqsOf(num, den)}

\* skipDraw(fps) for a whole number f of frames per second
SkipDraw(cfg, f, counter) == SkipDrawOf(cfg, f, 1, counter)

--------------------------------------------------------------------------
(* Init *)

\* SaveFileList.cpp: the list is empty when the library is loaded
NoSaveFiles == << >>

\* No SaveFileList call has been made
NoFileCall == [n |-> 0, op |-> "none", old |-> "", new |-> "", ret |-> 0]

FrameState(configs) ==
    /\ savefiles = NoSaveFiles
    /\ filecall = NoFileCall
    /\ framecount = 0
    /\ didASavestate = FALSE
    /\ skipping_draw = FALSE
    /\ skip_counter = 0
    /\ shared_config \in configs
    /\ fps = 0
    /\ saveBacktrack = FALSE
    /\ is_exiting = FALSE
    /\ avencoder = FALSE
    /\ drawFB = FALSE
    /\ fpc = "idle"
    /\ snapshot = NoSnapshot
    /\ restoreInProgress = FALSE
    /\ sent = NoSent
    /\ nmsgs = 0
    /\ calls = 0
    /\ draws = 0
    /\ restores = 0
    /\ endSeen = "none"
    /\ ticks = 0
    /\ channel = "up"

\* The effects of the calls are not recorded
NoTrace == [on |-> FALSE, ev |-> <<>>]

\* The effects of the calls are recorded; none so far
EmptyTrace == [on |-> TRUE, ev |-> <<>>]

\* The effects ev are added to the record, if one is kept
Record(ev) == trace' = IF trace.on THEN [trace EXCEPT !.ev = @ \o ev] ELSE trace

\* The record starts anew with the effects ev, if one is kept
RecordCall(ev) == trace' = IF trace.on THEN [trace EXCEPT !.ev = ev] ELSE trace

FrameInit(configs) == FrameState(configs) /\ trace = NoTrace

--------------------------------------------------------------------------
(* DeterministicTimer *)

\* One frame's worth of virtual time
FrameTicks == 2

\* detTimer.getTicks()
GetTicks == ticks

\* detTimer.addDelay(delay)
AddDelay(t, delay) == t + delay

\* detTimer.enterFrameBoundary(): virtual time advances by one frame
EnterFrameBoundary(t) == t + FrameTicks

--------------------------------------------------------------------------
(* frameBoundary *)

\* A frame counter that counts the drawn frames only
CountDrawnFrames(n, d) == IF d THEN n + 1 ELSE n

\* ++framecount, whatever drawFB
IncrementFrameCount(n, d) == n + 1

\* The start-of-frame marker sent only inside the backtrack branch
SendFrameStartInBranch(s, backtrack) ==
    LET s1 == Send(Send(s, "FRAMECOUNT_TIME"), "FPS")
    IN  IF backtrack
        THEN Send(Send(s1, "DO_BACKTRACK_SAVESTATE"), "START_FRAMEBOUNDARY")
        ELSE s1

\* The messages sent before the first receive, in the order of the code
\* (alert strings and the one-shot game information carry no modelled state)
SendFrameStart(s, backtrack) ==
    LET s1 == Send(Send(s, "FRAMECOUNT_TIME"), "FPS")
        s2 == IF backtrack THEN Send(s1, "DO_BACKTRACK_SAVESTATE") ELSE s1
    IN  Send(s2, "START_FRAMEBOUNDARY")

\* A frameBoundary that enters the timer's frame boundary after its messages
EnterAfterSends(backtrack) ==
    <<<<"do", "++framecount">>, <<"send", "FRAMECOUNT_TIME">>, <<"send", "FPS">>,
      <<"send", "START_FRAMEBOUNDARY">>, <<"timer", "enterFrameBoundary">>>>

\* What frameBoundary does up to its first receive, in the order of the code
FrameStartEffects(backtrack) ==
    <<<<"do", "++framecount">>, <<"timer", "enterFrameBoundary">>,
      <<"send", "FRAMECOUNT_TIME">>, <<"send", "FPS">>>>
    \o (IF backtrack THEN <<<<"send", "DO_BACKTRACK_SAVESTATE">>>> ELSE <<>>)
    \o <<<<"send", "START_FRAMEBOUNDARY">>>>

\* The tags the first message that is not MSGN_RAMWATCH may carry: the end
\* of the frame boundary, or any other
FirstTags == {"END_FRAMEBOUNDARY", "ALL_INPUTS"}

\* What frameBoundary does once receive_messages has returned on the message
\* how: the skip decision, then detTimer.exitFrameBoundary()
FinishEffects(how) ==
    <<<<"recv", IF how = "end" THEN "END_FRAMEBOUNDARY" ELSE "UNKNOWN">>,
      <<"do", "skipDraw">>, <<"timer", "exitFrameBoundary">>>>

\* if (ThreadManager::restoreInProgress): what case MSGN_SAVESTATE does first
ResumeEffects == <<<<"send", "LOADING_SUCCEEDED">>>>

\* A resynchronization that sends the frame counter before it has read the
\* configuration
ResyncSendsFirst == <<<<"send", "FRAMECOUNT_TIME">>, <<"do", "shared_config">>>>

\* What case MSGN_SAVESTATE does after the receiveMessage() that follows
\* "loading succeeded"
ResyncEffects == <<<<"do", "shared_config">>, <<"send", "FRAMECOUNT_TIME">>>>

\* A backtrack notification that does not wait for a first savestate
BacktrackWithoutSavestate == saveBacktrack /\ shared_config.backtrack_savestate

\* Whether the backtrack notification goes out in this frame
DoBacktrack == saveBacktrack /\ shared_config.backtrack_savestate /\ didASavestate

\* The game asks for a backtrack savestate between two frames
RequestBacktrack ==
    /\ UNCHANGED <<threadVars, fileVars>>
    /\ UNCHANGED trace
    /\ fpc = "idle"
    /\ ~saveBacktrack
    /\ saveBacktrack' = TRUE
    /\ UNCHANGED <<framecount, didASavestate, skipping_draw, skip_counter,
                   shared_config, fps, is_exiting, avencoder, drawFB, fpc, snapshot,
                   restoreInProgress, sent, nmsgs, calls, draws,
                   restores, endSeen, ticks, channel>>

\* frameBoundary from its entry to the first receiveMessage()
FrameBoundaryBegin(d, maxCalls) ==
    /\ UNCHANGED <<threadVars, fileVars>>
    /\ RecordCall(FrameStartEffects(DoBacktrack))
    /\ fpc = "idle"
    /\ calls < maxCalls
    /\ framecount' = IncrementFrameCount(framecount, d)
    /\ fps' \in (IF d THEN FpsValues ELSE {fps})
    /\ sent' = SendFrameStart(NoSent, DoBacktrack)
    /\ saveBacktrack' = FALSE
    /\ drawFB' = d
    /\ fpc' = "first"
    /\ nmsgs' = 0
    /\ calls' = calls + 1
    /\ endSeen' = "none"
    /\ ticks' = EnterFrameBoundary(ticks)
    /\ UNCHANGED <<didASavestate, skipping_draw, skip_counter, shared_config,
                   is_exiting, avencoder, snapshot, restoreInProgress, draws, restores,
                   channel>>

\* One invocation of the draw callback
Drawn(n) == n + 1

\* The messages MSGN_RAMWATCH answering the start-of-frame marker
ReceiveRamwatch ==
    /\ UNCHANGED <<threadVars, fileVars>>
    /\ Record(<<<<"recv", "RAMWATCH">>>>)
    /\ fpc = "first"
    /\ nmsgs < MaxMsgs
    /\ nmsgs' = nmsgs + 1
    /\ UNCHANGED <<framecount, didASavestate, skipping_draw, skip_counter,
                   shared_config, fps, saveBacktrack, is_exiting, avencoder, drawFB,
                   fpc, snapshot, restoreInProgress, sent, calls, draws,
                   restores, endSeen, ticks, channel>>

\* The draw step of the frame: draw() unless the frame is skipped
FrameDraws == ~skipping_draw

\* The first message that is not MSGN_RAMWATCH is consumed whatever its tag;
\* then the frame is rendered: encoder upkeep and the draw step.
ReceiveFirst ==
    /\ UNCHANGED <<threadVars, fileVars>>
    /\ \E m \in FirstTags : Record(<<<<"recv", m>>>>)
    /\ fpc = "first"
    /\ avencoder' = shared_config.av_dumping
    /\ draws' = IF FrameDraws THEN Drawn(draws) ELSE draws
    /\ fpc' = "loop"
    /\ UNCHANGED <<framecount, didASavestate, skipping_draw, skip_counter,
                   shared_config, fps, saveBacktrack, is_exiting, drawFB, snapshot,
                   restoreInProgress, sent, nmsgs, calls, restores, endSeen, ticks,
                   channel>>

\* A frame boundary that stops the process when its receive loop ended on an
\* unknown tag
FinishFailsOnUnknown(how) ==
    /\ UNCHANGED <<threadVars, fileVars>>
    /\ Record(FinishEffects(how))
    /\ \E r \in SkipDraw(shared_config, fps, skip_counter) :
         /\ skipping_draw' = r[1]
         /\ skip_counter' = r[2]
    /\ fpc' = IF how = "unknown" THEN "aborted" ELSE "idle"
    /\ endSeen' = how
    /\ UNCHANGED <<framecount, didASavestate, shared_config, fps, saveBacktrack,
                   is_exiting, avencoder, drawFB, snapshot, restoreInProgress, sent,
                   nmsgs, calls, draws, restores, ticks, channel>>

\* frameBoundary after receive_messages has returned: the skip decision for
\* the next frame, then the return to the game
FrameBoundaryFinish(how) ==
    /\ UNCHANGED <<threadVars, fileVars>>
    /\ Record(FinishEffects(how))
    /\ \E r \in SkipDraw(shared_config, fps, skip_counter) :
         /\ skipping_draw' = r[1]
         /\ skip_counter' = r[2]
    /\ fpc' = "idle"
    /\ endSeen' = how
    /\ UNCHANGED <<framecount, didASavestate, shared_config, fps, saveBacktrack,
                   is_exiting, avencoder, drawFB, snapshot, restoreInProgress, sent,
                   nmsgs, calls, draws, restores, ticks, channel>>

--------------------------------------------------------------------------
(* receive_messages *)

\* A message of the loop that does not end it is being handled
InLoop == fpc = "loop" /\ nmsgs < MaxMsgs

loopFrame == <<framecount, didASavestate, skipping_draw, skip_counter, fps,
               saveBacktrack, drawFB, fpc, snapshot, restoreInProgress, sent, calls,
               restores, endSeen, ticks, channel>>

\* screen_redraw: draws only when the frame is not skipped and pixels are saved
RedrawDraws == ~skipping_draw /\ shared_config.save_screenpixels

ScreenRedraw ==
    draws' = IF RedrawDraws THEN Drawn(draws) ELSE draws

\* A quit request that ends the frame boundary at once
QuitReturns == "idle"

\* break: case MSGN_USERQUIT leaves the switch and the loop goes round
QuitGoesOn == "loop"

\* case MSGN_USERQUIT: pushQuitEvent() queues the close-window event of the
\* platform (SDL_QUIT, or WM_DELETE_WINDOW to the game window)
ReceiveUserQuit ==
    /\ UNCHANGED <<threadVars, fileVars>>
    /\ Record(<<<<"recv", "USERQUIT">>, <<"do", "pushQuitEvent">>>>)
    /\ InLoop
    /\ nmsgs' = nmsgs + 1
    /\ is_exiting' = TRUE
    /\ fpc' = QuitGoesOn
    /\ UNCHANGED <<framecount, didASavestate, skipping_draw, skip_counter, fps,
                   saveBacktrack, drawFB, snapshot, restoreInProgress, sent, calls,
                   restores, endSeen, ticks, channel>>
    /\ UNCHANGED <<shared_config, avencoder, draws>>

\* case MSGN_CONFIG
ReceiveConfig(c) ==
    /\ UNCHANGED <<threadVars, fileVars>>
    /\ Record(<<<<"recv", "CONFIG">>, <<"do", "shared_config">>>>)
    /\ InLoop
    /\ nmsgs' = nmsgs + 1
    /\ shared_config' = c
    /\ UNCHANGED loopFrame
    /\ UNCHANGED <<is_exiting, avencoder, draws>>

\* cases MSGN_DUMP_FILE, MSGN_ALL_INPUTS, MSGN_SAVESTATE_PATH, MSGN_SAVESTATE_INDEX
\* and, in a build without the HUD, MSGN_OSD_MSG: payload stored, nothing else
ReceiveData ==
    /\ UNCHANGED <<threadVars, fileVars>>
    /\ Record(<<<<"recv", "DATA">>>>)
    /\ InLoop
    /\ nmsgs' = nmsgs + 1
    /\ UNCHANGED loopFrame
    /\ UNCHANGED <<shared_config, is_exiting, avencoder, draws>>

\* cases MSGN_EXPOSE, MSGN_PREVIEW_INPUTS and, in a build with the HUD, MSGN_OSD_MSG
ReceiveExpose ==
    /\ UNCHANGED <<threadVars, fileVars>>
    /\ Record(<<<<"recv", "EXPOSE">>>>)
    /\ InLoop
    /\ nmsgs' = nmsgs + 1
    /\ ScreenRedraw
    /\ UNCHANGED loopFrame
    /\ UNCHANGED <<shared_config, is_exiting, avencoder>>

\* case MSGN_STOP_ENCODE
ReceiveStopEncode ==
    /\ UNCHANGED <<threadVars, fileVars>>
    /\ Record(<<<<"recv", "STOP_ENCODE">>>>)
    /\ InLoop
    /\ nmsgs' = nmsgs + 1
    /\ avencoder' = FALSE
    /\ shared_config' = IF avencoder THEN [shared_config EXCEPT !.av_dumping = FALSE]
                        ELSE shared_config
    /\ UNCHANGED loopFrame
    /\ UNCHANGED <<is_exiting, draws>>

\* case MSGN_END_FRAMEBOUNDARY
ReceiveEnd ==
    /\ fpc = "loop"
    /\ FrameBoundaryFinish("end")

\* default: an unknown tag is logged and the loop returns
ReceiveUnknown ==
    /\ fpc = "loop"
    /\ FrameBoundaryFinish("unknown")

\* A wait for thread initialization that returns at once
InitializationNotAwaited(n) == TRUE

\* ThreadSync::waitForThreadsToFinishInitialization() returns: the count of
\* uninitialized threads is zero
ThreadsInitialized(n) == n = 0

\* ThreadManager::checkpoint(): the image the checkpoint engine captures. The
\* configuration is left out: a restored process receives it anew before it
\* reads it.
Capture ==
    [valid |-> TRUE, framecount |-> framecount, skipping_draw |-> skipping_draw,
     skip_counter |-> skip_counter, fps |-> fps, is_exiting |-> is_exiting,
     avencoder |-> avencoder, drawFB |-> drawFB, ticks |-> ticks]

\* case MSGN_SAVESTATE, a fresh capture (restoreInProgress is false afterwards);
\* ThreadManager::checkpoint() first waits for the threads being initialized
ReceiveSavestate ==
    /\ UNCHANGED <<threadVars, fileVars>>
    /\ Record(<<<<"recv", "SAVESTATE">>, <<"do", "checkpoint">>>>)
    /\ InLoop
    /\ ThreadsInitialized(uninit)
    /\ nmsgs' = nmsgs + 1
    /\ snapshot' = Capture
    /\ didASavestate' = TRUE
    /\ restoreInProgress' = FALSE
    /\ UNCHANGED <<framecount, skipping_draw, skip_counter, shared_config, fps,
                   saveBacktrack, is_exiting, avencoder, drawFB, fpc, sent, calls,
                   draws, restores, endSeen, ticks, channel>>

\* case MSGN_LOADSTATE when ThreadManager::restore() succeeds: execution resumes
\* in case MSGN_SAVESTATE of the captured call, right after the checkpoint, with
\* restoreInProgress set; "loading succeeded" is sent and the configuration awaited
ReceiveLoadstate ==
    /\ UNCHANGED <<threadVars, fileVars>>
    /\ Record(<<<<"recv", "LOADSTATE">>, <<"do", "restore">>>> \o ResumeEffects)
    /\ InLoop
    /\ snapshot.valid
    /\ nmsgs' = nmsgs + 1
    /\ framecount' = snapshot.framecount
    /\ skipping_draw' = snapshot.skipping_draw
    /\ skip_counter' = snapshot.skip_counter
    /\ fps' = snapshot.fps
    /\ is_exiting' = snapshot.is_exiting
    /\ avencoder' = snapshot.avencoder
    /\ drawFB' = snapshot.drawFB
    /\ saveBacktrack' = FALSE
    /\ didASavestate' = TRUE
    /\ restoreInProgress' = TRUE
    /\ sent' = Send(sent, "LOADING_SUCCEEDED")
    /\ fpc' = "resync"
    /\ restores' = restores + 1
    /\ ticks' = snapshot.ticks
    /\ UNCHANGED <<shared_config, snapshot, calls, draws, endSeen, channel>>

\* case MSGN_LOADSTATE when ThreadManager::restore() fails and returns
ReceiveLoadstateFailed ==
    /\ UNCHANGED <<threadVars, fileVars>>
    /\ Record(<<<<"recv", "LOADSTATE">>, <<"do", "restore">>, <<"send", "FRAMECOUNT_TIME">>>>)
    /\ InLoop
    /\ nmsgs' = nmsgs + 1
    /\ sent' = Send(sent, "FRAMECOUNT_TIME")
    /\ UNCHANGED <<framecount, didASavestate, skipping_draw, skip_counter,
                   shared_config, fps, saveBacktrack, is_exiting, avencoder, drawFB,
                   fpc, snapshot, restoreInProgress, calls, draws,
                   restores, endSeen, ticks, channel>>

\* The message after "loading succeeded" is MSGN_CONFIG
ReceiveResyncConfig(c) ==
    /\ UNCHANGED <<threadVars, fileVars>>
    /\ Record(<<<<"recv", "CONFIG">>>> \o ResyncEffects)
    /\ fpc = "resync"
    /\ shared_config' = c
    /\ sent' = Send(sent, "FRAMECOUNT_TIME")
    /\ fpc' = "loop"
    /\ UNCHANGED <<framecount, didASavestate, skipping_draw, skip_counter, fps,
                   saveBacktrack, is_exiting, avencoder, drawFB, snapshot,
                   restoreInProgress, nmsgs, calls, draws, restores,
                   endSeen, ticks, channel>>

\* The message after "loading succeeded" is not MSGN_CONFIG: MYASSERT reports it;
\* the process either stops there or goes on and reads sizeof(SharedConfig)
\* bytes of whatever follows into shared_config
ReceiveResyncOther ==
    /\ UNCHANGED <<threadVars, fileVars>>
    /\ fpc = "resync"
    /\ \/ /\ fpc' = "aborted"
          /\ Record(<<<<"recv", "OTHER">>, <<"do", "MYASSERT">>>>)
          /\ UNCHANGED <<shared_config, sent>>
       \/ /\ shared_config' \in Configs
          /\ sent' = Send(sent, "FRAMECOUNT_TIME")
          /\ fpc' = "loop"
          /\ Record(<<<<"recv", "OTHER">>, <<"do", "MYASSERT">>>> \o ResyncEffects)
    /\ UNCHANGED <<framecount, didASavestate, skipping_draw, skip_counter, fps,
                   saveBacktrack, is_exiting, avencoder, drawFB, snapshot,
                   restoreInProgress, nmsgs, calls, draws, restores,
                   endSeen, ticks, channel>>

\* The controller goes away: from now on receiveMessage() and receiveData()
\* fail, and the value the switch of receive_messages tests is not a message
\* of the controller; it may fall into any case
ControllerExits ==
    /\ UNCHANGED <<threadVars, fileVars>>
    /\ UNCHANGED trace
    /\ channel = "up"
    /\ channel' = "broken"
    /\ UNCHANGED <<framecount, didASavestate, skipping_draw, skip_counter,
                   shared_config, fps, saveBacktrack, is_exiting, avencoder, drawFB,
                   fpc, snapshot, restoreInProgress, sent, nmsgs, calls, draws,
                   restores, endSeen, ticks>>

--------------------------------------------------------------------------
(* ThreadManager: the registry of ThreadInfo records                        *)

Null == "NULL"
RetVals == {"r1"}
\* What an uninitialized void* may hold
AnyValue == RetVals \cup {Null, "garbage"}

NoHolder == -1
MainThread == 0

NoThread == [state |-> "NONE", detached |-> FALSE, retval |-> Null,
             pthread_id |-> 0, start |-> 0, inlist |-> FALSE]

NoOs == [pc |-> "none", slot |-> 0, tls |-> "clean", ret |-> Null]

\* A calling thread: the wrapper it is in (op, the identity id passed, whether
\* abstime is well-formed), where it is in it (stage), and once it has returned
\* the code returned (ret), whether threadDetach was reached (joined), what
\* was stored through the result pointer (value) and whether abstime was
\* well-formed (valid)
Idle == [op |-> "idle", id |-> 0, stage |-> "none", valid |-> TRUE, ret |-> "OK",
         joined |-> FALSE, value |-> "unset"]

\* result: the value the routine handed over when it ended ("none": it has not);
\* identity: the pthread_t pthread_create gave out for it; detachOK: a
\* pthread_detach on it has returned 0
NoHist == [exited |-> FALSE, released |-> FALSE, createdDetached |-> FALSE,
           timedOut |-> FALSE, result |-> "none", identity |-> 0,
           detachOK |-> FALSE]

Min(S) == CHOOSE x \in S : \A y \in S : x <= y
Max2(a, b) == IF a >= b THEN a ELSE b

Slots == DOMAIN threads
OsIds == DOMAIN os

Occupied(th) == {s \in DOMAIN th : th[s].state # "NONE"}
\* A registry that offers every finished record for reuse, joined or not
FinishedSlots(th) == {s \in DOMAIN th : th[s].state \in {"ZOMBIE", "PARKED"}}
ParkedSlots(th) == {s \in DOMAIN th : th[s].state = "PARKED"}
RunningSlots(th) == {s \in DOMAIN th : th[s].state = "RUNNING"}
LiveSlots(th) == {s \in DOMAIN th : th[s].state \in {"RUNNING", "ZOMBIE"}}

\* ThreadManager::getThread(pthread_id): the registered record of that identity,
\* 0 if there is none
GetThread(th, id) ==
    LET found == {s \in DOMAIN th : th[s].inlist /\ th[s].pthread_id = id}
    IN  IF found = {} THEN 0 ELSE Min(found)

\* ThreadManager::getNewThread(): a parked record when recycling, else a new
\* one (0: the model has no record left)
GetNewThread(th) ==
    IF recycle_threads /\ ParkedSlots(th) # {} THEN Min(ParkedSlots(th))
    ELSE IF (DOMAIN th) \ Occupied(th) # {} THEN Min((DOMAIN th) \ Occupied(th))
    ELSE 0

\* ThreadManager::initThreadFromParent(thread, start_routine, arg, from)
InitThreadFromParent(th, s, routine) ==
    [th EXCEPT ![s].state = "RUNNING", ![s].start = routine, ![s].detached = FALSE]

\* ThreadManager::initThreadFromChild(thread)
InitThreadFromChild(th, s, id) ==
    [th EXCEPT ![s].pthread_id = id, ![s].inlist = TRUE]

\* ThreadManager::threadIsDead(thread)
ThreadIsDead(th, s) == [th EXCEPT ![s] = NoThread]

\* The end of a thread that is both finished and detached
Release(th, s) ==
    IF recycle_threads THEN [th EXCEPT ![s].state = "PARKED"] ELSE ThreadIsDead(th, s)

\* ThreadManager::threadDetach(pthread_id)
ThreadDetach(th, id) ==
    LET s == GetThread(th, id)
    IN  IF s = 0 THEN th
        ELSE LET th1 == [th EXCEPT ![s].detached = TRUE]
             IN  IF th[s].state = "ZOMBIE" THEN Release(th1, s) ELSE th1

\* ThreadManager::threadExit(retval), called by the thread of record s
ThreadExit(th, s, v) ==
    LET th1 == [th EXCEPT ![s].retval = v, ![s].state = "ZOMBIE"]
    IN  IF th[s].detached THEN Release(th1, s) ELSE th1

ThreadInit(recycle, n, m) ==
    /\ recycle_threads = recycle
    /\ threads = [s \in 1..n |-> NoThread]
    /\ os = [t \in 1..n |-> NoOs]
    /\ uninit = 0
    /\ lock = NoHolder
    /\ cpc = [c \in 0..n |-> Idle]
    /\ created = 0
    /\ spawned = 0
    /\ hist = [l \in 1..m |-> NoHist]
    /\ maxRunning = 0
    /\ maxLive = 0

--------------------------------------------------------------------------
(* pthread_start: the trampoline of an OS thread                            *)

\* The logical thread (the routine) record s holds
Routine(s) == threads[s].start

\* Entry: the thread takes its mutex and registers itself
ThreadRegister(t) ==
    /\ UNCHANGED <<frameVars, fileVars>>
    /\ os[t].pc = "spawned"
    /\ threads' = InitThreadFromChild(threads, os[t].slot, t)
    /\ os' = [os EXCEPT ![t].pc = "check"]
    /\ UNCHANGED <<recycle_threads, uninit, lock, cpc, created, spawned, hist,
                   maxRunning, maxLive>>

\* if (thread->state == ST_RUNNING): the routine is entered
ThreadCheckRuns(t) ==
    /\ UNCHANGED <<frameVars, fileVars>>
    /\ os[t].pc = "check"
    /\ threads[os[t].slot].state = "RUNNING"
    /\ uninit' = uninit - 1
    /\ os' = [os EXCEPT ![t].pc = "routine"]
    /\ UNCHANGED <<recycle_threads, threads, lock, cpc, created, spawned, hist,
                   maxRunning, maxLive>>

\* else: the thread is about to call thread->cv.wait(lock)
ThreadCheckWaits(t) ==
    /\ UNCHANGED <<frameVars, fileVars>>
    /\ os[t].pc = "check"
    /\ threads[os[t].slot].state # "RUNNING"
    /\ os' = [os EXCEPT ![t].pc = "prewait"]
    /\ UNCHANGED <<recycle_threads, threads, uninit, lock, cpc, created,
                   spawned, hist, maxRunning, maxLive>>

\* thread->cv.wait(lock): the thread blocks until notified
ThreadWait(t) ==
    /\ UNCHANGED <<frameVars, fileVars>>
    /\ os[t].pc = "prewait"
    /\ os' = [os EXCEPT ![t].pc = "waiting"]
    /\ UNCHANGED <<recycle_threads, threads, uninit, lock, cpc, created,
                   spawned, hist, maxRunning, maxLive>>

\* The routine stores to thread-local variables
RoutineUsesTls(t) ==
    /\ UNCHANGED <<frameVars, fileVars>>
    /\ os[t].pc = "routine"
    /\ os[t].tls = "clean"
    /\ os' = [os EXCEPT ![t].tls = "dirty"]
    /\ UNCHANGED <<recycle_threads, threads, uninit, lock, cpc, created,
                   spawned, hist, maxRunning, maxLive>>

\* ret = thread->start(thread->arg) returns v
RoutineReturns(t, v) ==
    /\ UNCHANGED <<frameVars, fileVars>>
    /\ os[t].pc = "routine"
    /\ cpc[t] = Idle
    /\ os' = [os EXCEPT ![t].pc = "ended", ![t].ret = v]
    /\ hist' = [hist EXCEPT ![Routine(os[t].slot)].result = v]
    /\ UNCHANGED <<recycle_threads, threads, uninit, lock, cpc, created,
                   spawned, maxRunning, maxLive>>

\* A pthread_exit that ends the OS thread in either mode
ExitTerminates(recycle) == "done"

\* A pthread_exit that returns to the routine that called it
ExitReturns(recycle) == "routine"

\* Where pthread_exit takes the OS thread: throw ThreadExitException() lands
\* in the catch of pthread_start, past the routine; orig::pthread_exit ends it
ExitTransfers(recycle) == IF recycle THEN "ended" ELSE "done"

\* The routine calls pthread_exit(v). Recycling: ThreadExitException is thrown
\* and caught by the trampoline, whose ret was never assigned. Otherwise:
\* threadExit(v), then the OS thread ends in orig::pthread_exit(v).
RoutineCallsExit(t, v) ==
    /\ UNCHANGED <<frameVars, fileVars>>
    /\ os[t].pc = "routine"
    /\ cpc[t] = Idle
    /\ IF recycle_threads
       THEN /\ \E g \in AnyValue :
                  os' = [os EXCEPT ![t].pc = ExitTransfers(TRUE), ![t].ret = g]
            /\ hist' = [hist EXCEPT ![Routine(os[t].slot)].result = v]
            /\ UNCHANGED threads
       ELSE /\ os' = [os EXCEPT ![t].pc = ExitTransfers(FALSE), ![t].ret = v,
                                ![t].tls = "clean"]
            /\ threads' = ThreadExit(threads, os[t].slot, v)
            /\ hist' = [hist EXCEPT ![Routine(os[t].slot)].exited = TRUE,
                                    ![Routine(os[t].slot)].result = v]
    /\ UNCHANGED <<recycle_threads, uninit, lock, cpc, created, spawned,
                   maxRunning, maxLive>>

\* A cleanup that leaves the thread-local values in place
TlsKept(tls) == tls

\* clear_pthread_keys() ... _dl_allocate_tls_init(): what the thread-local
\* state holds afterwards
TlsErased(tls) == "clean"

\* The thread-local state of the OS thread is erased
ThreadCleanup(t) ==
    /\ UNCHANGED <<frameVars, fileVars>>
    /\ os[t].pc = "ended"
    /\ os' = [os EXCEPT ![t].pc = "cleaned", ![t].tls = TlsErased(os[t].tls)]
    /\ UNCHANGED <<recycle_threads, threads, uninit, lock, cpc, created,
                   spawned, hist, maxRunning, maxLive>>

\* ThreadManager::threadExit(ret), then the loop test: the thread goes round
\* when recycling and returns nullptr otherwise
ThreadExits(t) ==
    /\ UNCHANGED <<frameVars, fileVars>>
    /\ os[t].pc = "cleaned"
    /\ threads' = ThreadExit(threads, os[t].slot, os[t].ret)
    /\ hist' = [hist EXCEPT ![Routine(os[t].slot)].exited = TRUE]
    /\ os' = IF recycle_threads THEN [os EXCEPT ![t].pc = "check", ![t].ret = Null]
             ELSE [os EXCEPT ![t].pc = "done", ![t].ret = Null]
    /\ UNCHANGED <<recycle_threads, uninit, lock, cpc, created, spawned,
                   maxRunning, maxLive>>

--------------------------------------------------------------------------
(* The wrappers, called by the main thread or from a running routine        *)

\* Thread c is executing game code and may call a wrapper
CanCall(c) ==
    /\ cpc[c] = Idle
    /\ IF c = MainThread THEN TRUE ELSE os[c].pc = "routine"

\* thread->cv.notify_all(): the thread of record s resumes if it is waiting
NotifyAll(o, s) ==
    [t \in DOMAIN o |-> IF o[t].slot = s /\ o[t].pc = "waiting"
                         THEN [o[t] EXCEPT !.pc = "check"] ELSE o[t]]

\* A pthread_create that spawns a thread although the record is a recycled one
CreateIgnoresRecycled(isRecycled) == FALSE

\* if (isRecycled): no OS thread is created for a recycled record
CreateRecycles(isRecycled) == isRecycled

\* The record of a call that has returned
Returned(op, id, ret, joined, value) ==
    [op |-> op, id |-> id, stage |-> "returned", valid |-> TRUE, ret |-> ret,
     joined |-> joined, value |-> value]

\* A pthread_create that undoes its bookkeeping when the creation succeeded
CreateSucceeded(ret) == ret = "OK"

\* A pthread_create that does not notice that orig::pthread_create failed
CreateFailureUnnoticed(ret) == FALSE

\* if (ret != 0): thread creation failed
CreateFailed(ret) == ret # "OK"

\* A wrapper execution lock that never makes a caller wait
LockIgnored(l) == TRUE

\* ThreadSync::wrapperExecutionLockLock() returns to its caller: no thread
\* holds the lock
LockFree(l) == l = NoHolder

\* Thread c called the wrapper op(id), found the wrapper execution lock held
\* and is waiting for it in wrapperExecutionLockLock()
Waited(c, op, id) == cpc[c] = [Idle EXCEPT !.op = op, !.id = id, !.stage = "lockwait"]

\* Thread c passes the wrapperExecutionLockLock() of the wrapper op(id): it
\* calls the wrapper now, or it called it before and has waited for the lock
Enters(c, op, id) == CanCall(c) \/ Waited(c, op, id)

\* Thread c calls the wrapper op(id) while another thread holds the wrapper
\* execution lock: it blocks in wrapperExecutionLockLock()
LockWait(c, op, id) ==
    /\ UNCHANGED <<frameVars, fileVars>>
    /\ CanCall(c)
    /\ ~LockFree(lock)
    /\ cpc' = [cpc EXCEPT ![c] = [Idle EXCEPT !.op = op, !.id = id, !.stage = "lockwait"]]
    /\ UNCHANGED <<recycle_threads, threads, os, uninit, lock, created, spawned, hist,
                   maxRunning, maxLive>>

\* pthread_create(tid_p, attr, start_routine, arg); det: attr asks for a
\* detached thread; ok: orig::pthread_create, if called, succeeds
PthreadCreate(c, det, ok, maxCreates) ==
    /\ UNCHANGED <<frameVars, fileVars>>
    /\ Enters(c, "create", 0)
    /\ LockFree(lock)
    /\ created < maxCreates
    /\ GetNewThread(threads) # 0
    /\ LET s == GetNewThread(threads)
           routine == created + 1
           isRecycled == threads[s].state = "PARKED"
           th1 == [InitThreadFromParent(threads, s, routine) EXCEPT ![s].detached = det]
           recycles == CreateRecycles(isRecycled)
           ret == IF recycles \/ ok THEN "OK" ELSE "EAGAIN"
           spawns == ~recycles /\ ok
           undone == ~recycles /\ CreateFailed(ret)
           tid == IF recycles THEN th1[s].pthread_id ELSE IF ok THEN spawned + 1 ELSE 0
       IN  /\ recycles => ok
           /\ spawns => spawned < Cardinality(OsIds)
           /\ threads' = IF undone THEN ThreadIsDead(th1, s) ELSE th1
           /\ uninit' = IF undone THEN uninit ELSE uninit + 1
           /\ os' = IF recycles THEN NotifyAll(os, s)
                    ELSE IF ok THEN [os EXCEPT ![spawned + 1] =
                             [pc |-> "spawned", slot |-> s, tls |-> "clean", ret |-> Null]]
                    ELSE os
           /\ spawned' = IF spawns THEN spawned + 1 ELSE spawned
           /\ created' = IF ret = "OK" THEN routine ELSE created
           /\ hist' = IF ret = "OK" THEN [hist EXCEPT ![routine].createdDetached = det,
                                                      ![routine].identity = tid]
                      ELSE hist
           /\ maxRunning' = IF ret = "OK"
                            THEN Max2(maxRunning, Cardinality(RunningSlots(th1)))
                            ELSE maxRunning
           /\ maxLive' = IF ret = "OK" THEN Max2(maxLive, Cardinality(LiveSlots(th1)))
                         ELSE maxLive
           /\ cpc' = [cpc EXCEPT ![c] = Returned("create", tid, ret, FALSE, "unset")]
    /\ UNCHANGED <<recycle_threads, lock>>

\* A return path that leaves the wrapper execution lock as it is
ReturnKeepsLock(c, rec) ==
    /\ lock' = lock
    /\ cpc' = [cpc EXCEPT ![c] = rec]

\* wrapperExecutionLockUnlock(); return
Return(c, rec) ==
    /\ lock' = NoHolder
    /\ cpc' = [cpc EXCEPT ![c] = rec]

\* The caller goes on with the game code
CallReturned(c) ==
    /\ UNCHANGED <<frameVars, fileVars>>
    /\ cpc[c].stage = "returned"
    /\ cpc' = [cpc EXCEPT ![c] = Idle]
    /\ UNCHANGED <<recycle_threads, threads, os, uninit, lock, created, spawned, hist,
                   maxRunning, maxLive>>

\* threadDetach(id), and its note in the history
Detaches(id) ==
    /\ threads' = ThreadDetach(threads, id)
    /\ hist' = [hist EXCEPT ![Routine(GetThread(threads, id))].released = TRUE]

\* A pthread_detach that does not test the detached flag
DetachIgnoresDetached(th, s) == FALSE

\* if (thread->detached) of pthread_detach
DetachSeesDetached(th, s) == th[s].detached

\* A pthread_join that does not test the detached flag
JoinIgnoresDetached(th, s) == FALSE

\* if (thread->detached) of pthread_join
JoinSeesDetached(th, s) == th[s].detached

\* The end of pthread_tryjoin_np: return EBUSY, whatever ret holds
TryJoinReturn(ret) == "EBUSY"

\* The end of pthread_timedjoin_np: return ETIMEDOUT, whatever ret holds
TimedJoinReturn(ret) == "ETIMEDOUT"

\* The OS thread of that identity has terminated (what the orig:: joins test)
OsTerminated(id) == os[id].pc = "done"

\* A failed lookup reported as an invalid argument
UnknownIsInvalid == "EINVAL"

\* if (!thread) ... return ESRCH
NoSuchThread == "ESRCH"

\* After waitForThreadsToFinishInitialization(), for the call op(id) of c: the
\* abstime test of timedjoin, the lookup, the detached test, and the part of
\* the wrapper that does not block
LooksUp(c, op, id, valid) ==
    LET s == GetThread(threads, id)
    IN  IF ~valid
        THEN Return(c, [Returned(op, id, "EINVAL", FALSE, "unset") EXCEPT !.valid = FALSE])
             /\ UNCHANGED <<threads, hist>>
        ELSE IF s = 0
        THEN Return(c, Returned(op, id, NoSuchThread, FALSE, "unset"))
             /\ UNCHANGED <<threads, hist>>
        ELSE IF (IF op = "join" THEN JoinSeesDetached(threads, s)
                 ELSE IF op = "detach" THEN DetachSeesDetached(threads, s)
                 ELSE threads[s].detached)
        THEN Return(c, Returned(op, id, "EINVAL", FALSE, "unset"))
             /\ UNCHANGED <<threads, hist>>
        ELSE IF op = "detach"
        THEN /\ Return(c, Returned(op, id, "OK", FALSE, "unset"))
             /\ threads' = ThreadDetach(threads, id)
             /\ hist' = [hist EXCEPT ![Routine(s)].released = TRUE,
                                     ![Routine(s)].detachOK = TRUE]
        ELSE IF op = "tryjoin"
        THEN IF (IF recycle_threads THEN threads[s].state = "ZOMBIE" ELSE OsTerminated(id))
             THEN /\ Return(c, Returned(op, id, TryJoinReturn("OK"), TRUE,
                                 IF recycle_threads THEN threads[s].retval ELSE os[id].ret))
                  /\ Detaches(id)
             ELSE /\ Return(c, Returned(op, id, TryJoinReturn("EBUSY"), FALSE, "unset"))
                  /\ UNCHANGED <<threads, hist>>
        ELSE /\ cpc' = [cpc EXCEPT ![c] = [Idle EXCEPT !.op = op, !.id = id, !.stage =
                           IF op = "timedjoin" THEN "sleep"
                           ELSE IF recycle_threads THEN "poll" ELSE "osjoin"]]
             /\ lock' = c
             /\ UNCHANGED <<threads, hist>>

\* pthread_join, pthread_detach, pthread_tryjoin_np, pthread_timedjoin_np
\* called with identity id (valid: abstime is well-formed): the lock is taken;
\* the call goes on at once if no thread is being initialized, and waits in
\* waitForThreadsToFinishInitialization(), holding the lock, otherwise
Call(c, op, id, valid) ==
    /\ UNCHANGED <<frameVars, fileVars>>
    /\ Enters(c, op, id)
    /\ LockFree(lock)
    /\ op = "timedjoin" \/ valid
    /\ IF ThreadsInitialized(uninit)
       THEN LooksUp(c, op, id, valid)
       ELSE /\ lock' = c
            /\ cpc' = [cpc EXCEPT ![c] = [Idle EXCEPT !.op = op, !.id = id,
                                                      !.stage = "locked", !.valid = valid]]
            /\ UNCHANGED <<threads, hist>>
    /\ UNCHANGED <<recycle_threads, os, uninit, created, spawned, maxRunning, maxLive>>

\* waitForThreadsToFinishInitialization() returns to a call that waited
CallResumes(c) ==
    /\ UNCHANGED <<frameVars, fileVars>>
    /\ cpc[c].stage = "locked"
    /\ ThreadsInitialized(uninit)
    /\ LooksUp(c, cpc[c].op, cpc[c].id, cpc[c].valid)
    /\ UNCHANGED <<recycle_threads, os, uninit, created, spawned, maxRunning, maxLive>>

\* A join that does not wait for the target
JoinDoesNotPoll(th, s) == TRUE

\* while (thread->state != ThreadInfo::ST_ZOMBIE) nanosleep(1 ms): the test
\* that ends the loop
PollSeesZombie(th, s) == th[s].state = "ZOMBIE"

\* pthread_join when recycling: the poll finds the loop condition false
JoinPollEnds(c) ==
    /\ UNCHANGED <<frameVars, fileVars>>
    /\ cpc[c].stage = "poll"
    /\ PollSeesZombie(threads, GetThread(threads, cpc[c].id))
    /\ cpc' = [cpc EXCEPT ![c].stage = "detach"]
    /\ UNCHANGED <<recycle_threads, threads, os, uninit, lock, created, spawned,
                   hist, maxRunning, maxLive>>

\* pthread_join when recycling: threadDetach, unlock, return 0; nothing is
\* stored through thread_return
JoinReturns(c) ==
    /\ UNCHANGED <<frameVars, fileVars>>
    /\ cpc[c].stage = "detach"
    /\ Return(c, Returned("join", cpc[c].id, "OK", TRUE, "unset"))
    /\ Detaches(cpc[c].id)
    /\ UNCHANGED <<recycle_threads, os, uninit, created, spawned, maxRunning, maxLive>>

\* pthread_join without recycling: orig::pthread_join returns once the OS
\* thread has terminated; then threadDetach, unlock, return 0
OsJoinReturns(c) ==
    /\ UNCHANGED <<frameVars, fileVars>>
    /\ cpc[c].stage = "osjoin"
    /\ OsTerminated(cpc[c].id)
    /\ Return(c, Returned("join", cpc[c].id, "OK", TRUE, os[cpc[c].id].ret))
    /\ Detaches(cpc[c].id)
    /\ UNCHANGED <<recycle_threads, os, uninit, created, spawned, maxRunning, maxLive>>

\* pthread_timedjoin_np after the wait (nanosleep(abstime) when recycling,
\* orig::pthread_timedjoin_np otherwise)
TimedJoinWakes(c) ==
    /\ UNCHANGED <<frameVars, fileVars>>
    /\ cpc[c].stage = "sleep"
    /\ LET id == cpc[c].id
           s == GetThread(threads, id)
       IN  IF (IF recycle_threads THEN threads[s].state = "ZOMBIE" ELSE OsTerminated(id))
           THEN /\ Return(c, Returned("timedjoin", id, TimedJoinReturn("OK"), TRUE,
                               IF recycle_threads THEN threads[s].retval ELSE os[id].ret))
                /\ Detaches(cpc[c].id)
           ELSE /\ Return(c, Returned("timedjoin", id, TimedJoinReturn("ETIMEDOUT"),
                               FALSE, "unset"))
                /\ hist' = [hist EXCEPT ![Routine(s)].timedOut = TRUE]
                /\ UNCHANGED threads
    /\ UNCHANGED <<recycle_threads, os, uninit, created, spawned, maxRunning, maxLive>>

\* shared_config.wait_timeout
WaitPolicies == {"NATIVE", "INFINITE", "FULL_INFINITE", "FINITE"}

\* TimeHolder delay = end - now
WaitDelay(end, now) == end - now

\* A finite policy that transfers the time even when its first wait succeeded
AddsDelayWhenSignalled(isMain, policy, signalled) ==
    isMain /\ policy \in {"FULL_INFINITE", "FINITE"}

\* Whether the call reaches detTimer.addDelay(delay): on the main thread,
\* under the full-infinite policy, or under the finite policy when the first
\* bounded wait did not return 0
AddsDelay(isMain, policy, signalled) ==
    /\ isMain
    /\ policy # "NATIVE"
    /\ policy = "FULL_INFINITE" \/ (policy = "FINITE" /\ ~signalled)

\* delta_time of the finite policy: 0.1 s, in ticks
BoundedWait == 1

\* The condition variables of the game
Conds == {"cond1", "cond2"}

\* A pthread_cond_timedwait that treats every thread as the main thread
TimedwaitOnAnyThread(isMain, policy, abstime, now, signalled) ==
    IF policy = "FINITE"
    THEN <<<<"timedwait", now + BoundedWait>>>>
    ELSE <<<<"addDelay", WaitDelay(abstime, now)>>, <<"wait", "forever">>>>

\* What pthread_cond_timedwait does after its isNative test, in the order of
\* the code: <<"timedwait", d>> is orig::pthread_cond_timedwait with deadline
\* d, <<"ret", r>> what the first bounded wait returned, <<"addDelay", d>> is
\* detTimer.addDelay(d), <<"wait", "forever">> is orig::pthread_cond_wait
CondTimedwaitEffects(isMain, policy, abstime, now, signalled) ==
    IF ~isMain \/ policy = "NATIVE"
    THEN <<<<"timedwait", abstime>>>>
    ELSE LET first == IF policy = "FINITE"
                      THEN <<<<"timedwait", now + BoundedWait>>,
                             <<"ret", IF signalled THEN "OK" ELSE "ETIMEDOUT">>>>
                      ELSE <<>>
             delay == WaitDelay(abstime, now)
             transfer == IF policy \in {"FULL_INFINITE", "FINITE"}
                         THEN <<<<"addDelay", delay>>>>
                         ELSE <<>>
             now2 == IF policy \in {"FULL_INFINITE", "FINITE"}
                     THEN AddDelay(now, delay) ELSE now
         IN  IF policy = "FINITE" /\ signalled
             THEN first
             ELSE first \o transfer
                  \o (IF policy = "FINITE"
                      THEN <<<<"timedwait", now2 + BoundedWait>>>>
                      ELSE <<<<"wait", "forever">>>>)

\* pthread_cond_timedwait(cond, mutex, abstime) called from game code; isMain:
\* ThreadManager::isMainThread(); signalled: the first bounded wait of the
\* finite policy returns 0
PthreadCondTimedwait(isMain, policy, abstime, signalled) ==
    /\ UNCHANGED <<threadVars, fileVars>>
    /\ RecordCall(<<<<"pthread_cond_timedwait", <<isMain, policy, abstime, GetTicks>>>>>>
                  \o CondTimedwaitEffects(isMain, policy, abstime, GetTicks, signalled))
    /\ fpc = "idle"
    /\ LET now == GetTicks
       IN  ticks' = IF AddsDelay(isMain, policy, signalled)
                    THEN AddDelay(ticks, WaitDelay(abstime, now))
                    ELSE ticks
    /\ UNCHANGED <<framecount, didASavestate, skipping_draw, skip_counter,
                   shared_config, fps, saveBacktrack, is_exiting, avencoder, drawFB,
                   fpc, snapshot, restoreInProgress, sent, nmsgs, calls, draws,
                   restores, endSeen, channel>>

\* pthread_cond_wait, pthread_cond_signal and pthread_cond_broadcast (op) called
\* on cond; native: GlobalState::isNative(). Both branches hand the arguments
\* to the orig:: function of the same name.
PthreadCondPass(op, cond, native) ==
    /\ UNCHANGED <<threadVars, fileVars>>
    /\ RecordCall(<<<<op, cond>>, <<"orig::" \o op, cond>>>>)
    /\ fpc = "idle"
    /\ UNCHANGED <<framecount, didASavestate, skipping_draw, skip_counter,
                   shared_config, fps, saveBacktrack, is_exiting, avencoder, drawFB,
                   fpc, snapshot, restoreInProgress, sent, nmsgs, calls, draws,
                   restores, endSeen, ticks, channel>>

--------------------------------------------------------------------------
(* SaveFileList: the registry of the save files the game has touched.       *)
(* The SaveFile class is not part of the source at hand: an entry is held   *)
(* as its canonical file name, its removed flag and the ordinal of the call *)
(* that constructed it.                                                     *)

\* SaveFileList calls explored under SpecSaveFiles
MaxFileCalls == 4

\* Paths the game may pass; "./a" and "a" name the same file
Paths == {"a", "./a", "b", "c"}

\* SaveFile::canonicalizeFile: the canonical path of a file
CanonicalizeFile(file) == IF file = "./a" THEN "a" ELSE file

\* SaveFile::isSameFile: the entry is registered under the canonical path of file
IsSameFile(savefile, file) == savefile.filename = CanonicalizeFile(file)

\* new SaveFile(file), constructed by call number n
NewSaveFile(file, n) == [filename |-> CanonicalizeFile(file), removed |-> FALSE, id |-> n]

\* SaveFile::open: opening for writing brings a removed file back
OpenFile(savefile, write) ==
    [savefile EXCEPT !.removed = IF write THEN FALSE ELSE @]

\* SaveFile::remove: fails on a file already removed
RemoveFile(savefile) == [savefile EXCEPT !.removed = TRUE]

\* for (const auto& savefile : savefiles) if (savefile->isSameFile(file)):
\* the position of the first entry for file in list, 0 if there is none
Find(list, file) ==
    IF \E i \in 1..Len(list) : IsSameFile(list[i], file)
    THEN CHOOSE i \in 1..Len(list) :
            /\ IsSameFile(list[i], file)
            /\ \A j \in 1..(i - 1) : ~IsSameFile(list[j], file)
    ELSE 0

\* savefiles.remove_if(... isSameFile(file))
RemoveIf(list, file) ==
    LET Other(savefile) == ~IsSameFile(savefile, file)
    IN  SelectSeq(list, Other)

\* access(file, W_OK) on the file system of the game
Access(writable) == IF writable THEN 0 ELSE -1

\* The call now made is the next one; what it was and what it returned
FileCall(op, old, new, ret) ==
    /\ filecall.n < MaxFileCalls
    /\ filecall' = [n |-> filecall.n + 1, op |-> op, old |-> old, new |-> new,
                    ret |-> ret]

\* SaveFileList::openSaveFile(file, modes) and (file, oflag); the value
\* returned is the stream or descriptor, held as 0
OpenSaveFile(file, write) ==
    /\ UNCHANGED <<frameVars, threadVars>>
    /\ FileCall("open", file, file, 0)
    /\ LET i == Find(savefiles, file)
       IN  IF i # 0
           THEN savefiles' = [savefiles EXCEPT ![i] = OpenFile(@, write)]
           ELSE savefiles' =
                    <<OpenFile(NewSaveFile(file, filecall.n + 1), write)>> \o savefiles

\* SaveFileList::removeSaveFile(file)
RemoveSaveFile(file, prevent_savefiles, writable) ==
    /\ UNCHANGED <<frameVars, threadVars>>
    /\ LET i == Find(savefiles, file)
       IN  IF i # 0
           THEN /\ savefiles' = [savefiles EXCEPT ![i] = RemoveFile(@)]
                /\ FileCall("remove", file, file,
                            IF savefiles[i].removed THEN -1 ELSE 0)
           ELSE IF prevent_savefiles
           THEN /\ savefiles' =
                    <<RemoveFile(NewSaveFile(file, filecall.n + 1))>> \o savefiles
                /\ FileCall("remove", file, file, Access(writable))
           ELSE /\ savefiles' = savefiles
                /\ FileCall("remove", file, file, 1)

\* SaveFileList::renameSaveFile(oldfile, newfile); canonical tells whether
\* canonicalizeFile(newfile) gave a path
RenameSaveFile(oldfile, newfile, canonical, prevent_savefiles, writable) ==
    /\ UNCHANGED <<frameVars, threadVars>>
    /\ IF ~canonical
       THEN /\ savefiles' = savefiles
            /\ FileCall("rename", oldfile, newfile, -1)
       ELSE LET newfilestr == CanonicalizeFile(newfile)
                list == RemoveIf(savefiles, newfile)
                i == Find(list, oldfile)
            IN  IF i # 0
                THEN /\ savefiles' = [list EXCEPT ![i].filename = newfilestr]
                     /\ FileCall("rename", oldfile, newfile, 0)
                ELSE IF prevent_savefiles
                THEN /\ savefiles' =
                         <<[OpenFile(NewSaveFile(oldfile, filecall.n + 1), FALSE)
                               EXCEPT !.filename = newfilestr]>> \o list
                     /\ FileCall("rename", oldfile, newfile, Access(writable))
                ELSE /\ savefiles' = list
                     /\ FileCall("rename", oldfile, newfile, 1)

--------------------------------------------------------------------------
(* The frame boundary under a controller that may send anything *)

Init == FrameInit(Configs) /\ ThreadInit(TRUE, 1, 1)

Next ==
    \/ RequestBacktrack
    \/ \E d \in BOOLEAN : FrameBoundaryBegin(d, MaxFrames)
    \/ ReceiveRamwatch
    \/ ReceiveFirst
    \/ ReceiveUserQuit
    \/ \E c \in Configs : ReceiveConfig(c)
    \/ ReceiveData
    \/ ReceiveExpose
    \/ ReceiveStopEncode
    \/ ReceiveSavestate
    \/ ReceiveLoadstate
    \/ ReceiveLoadstateFailed
    \/ \E c \in Configs : ReceiveResyncConfig(c)
    \/ ReceiveResyncOther
    \/ ReceiveEnd
    \/ ReceiveUnknown

Spec == Init /\ [][Next]_vars

--------------------------------------------------------------------------
(* The frame boundary under the same controller, with what each call does    *)
(* recorded in order                                                         *)

InitTrace == FrameState(Configs) /\ trace = EmptyTrace /\ ThreadInit(TRUE, 1, 1)

SpecTrace == InitTrace /\ [][Next]_vars

--------------------------------------------------------------------------
(* The scenario of the "skip all rendering" mode: ScenarioFrames calls from  *)
(* the initial state, the mode active from the start and in every            *)
(* configuration the controller delivers, and no snapshot taken or restored. *)

InitSkipAll == FrameInit(SkipAllConfigs) /\ ThreadInit(TRUE, 1, 1)

NextSkipAll ==
    \/ \E d \in BOOLEAN : FrameBoundaryBegin(d, ScenarioFrames)
    \/ ReceiveRamwatch
    \/ ReceiveFirst
    \/ \E c \in SkipAllConfigs : ReceiveConfig(c)
    \/ ReceiveData
    \/ ReceiveExpose
    \/ ReceiveEnd

SpecSkipAll == InitSkipAll /\ [][NextSkipAll]_vars

--------------------------------------------------------------------------
(* The thread layer with recycling: any program whose main thread creates,   *)
(* joins and detaches threads                                                 *)

IdleConfig == Config(FALSE, TRUE, FALSE, FALSE, TRUE, FALSE)

Callers == {MainThread}

JoinOps == {"join", "detach", "tryjoin", "timedjoin"}

InitThreads ==
    /\ FrameInit({IdleConfig})
    /\ ThreadInit(TRUE, MaxThreads, MaxCreates)

NextThreads ==
    \/ \E t \in OsIds : ThreadRegister(t)
    \/ \E t \in OsIds : ThreadCheckRuns(t)
    \/ \E t \in OsIds : ThreadCheckWaits(t)
    \/ \E t \in OsIds : ThreadWait(t)
    \/ \E t \in OsIds : RoutineUsesTls(t)
    \/ \E t \in OsIds, v \in RetVals : RoutineReturns(t, v)
    \/ \E t \in OsIds, v \in RetVals : RoutineCallsExit(t, v)
    \/ \E t \in OsIds : ThreadCleanup(t)
    \/ \E t \in OsIds : ThreadExits(t)
    \/ \E c \in Callers, det \in BOOLEAN, ok \in BOOLEAN :
          PthreadCreate(c, det, ok, MaxCreates)
    \/ \E c \in Callers, op \in JoinOps, id \in OsIds, valid \in BOOLEAN :
          Call(c, op, id, valid)
    \/ \E c \in Callers : CallResumes(c)
    \/ \E c \in Callers : JoinPollEnds(c)
    \/ \E c \in Callers : JoinReturns(c)
    \/ \E c \in Callers : TimedJoinWakes(c)
    \/ \E c \in Callers : CallReturned(c)

SpecThreads == InitThreads /\ [][NextThreads]_vars

--------------------------------------------------------------------------
(* The thread layer without recycling                                       *)

InitNoRecycle ==
    /\ FrameInit({IdleConfig})
    /\ ThreadInit(FALSE, MaxThreads, MaxCreates)

NextNoRecycle ==
    \/ \E t \in OsIds : ThreadRegister(t)
    \/ \E t \in OsIds : ThreadCheckRuns(t)
    \/ \E t \in OsIds : RoutineUsesTls(t)
    \/ \E t \in OsIds, v \in RetVals : RoutineReturns(t, v)
    \/ \E t \in OsIds, v \in RetVals : RoutineCallsExit(t, v)
    \/ \E t \in OsIds : ThreadCleanup(t)
    \/ \E t \in OsIds : ThreadExits(t)
    \/ \E c \in Callers, det \in BOOLEAN, ok \in BOOLEAN :
          PthreadCreate(c, det, ok, MaxCreates)
    \/ \E c \in Callers, op \in JoinOps, id \in OsIds, valid \in BOOLEAN :
          Call(c, op, id, valid)
    \/ \E c \in Callers : CallResumes(c)
    \/ \E c \in Callers : OsJoinReturns(c)
    \/ \E c \in Callers : TimedJoinWakes(c)
    \/ \E c \in Callers : CallReturned(c)

SpecNoRecycle == InitNoRecycle /\ [][NextNoRecycle]_vars

--------------------------------------------------------------------------
(* The recycling scenario: the main thread creates ScenarioThreads joinable  *)
(* threads, waits until every one of their routines has returned, may join   *)
(* or detach them, and then creates as many again, whose routines run on.    *)

InitRecycle ==
    /\ FrameInit({IdleConfig})
    /\ ThreadInit(TRUE, ScenarioThreads + 1, 2 * ScenarioThreads)

FirstFinished ==
    /\ created >= ScenarioThreads
    /\ \A l \in 1..ScenarioThreads : hist[l].exited

NextRecycle ==
    \/ \E t \in OsIds : ThreadRegister(t)
    \/ \E t \in OsIds : ThreadCheckRuns(t)
    \/ \E t \in OsIds : ThreadCheckWaits(t)
    \/ \E t \in OsIds : ThreadWait(t)
    \/ \E t \in OsIds : RoutineUsesTls(t)
    \/ \E t \in OsIds, v \in RetVals :
          /\ os[t].pc = "routine"
          /\ Routine(os[t].slot) <= ScenarioThreads
          /\ RoutineReturns(t, v)
    \/ \E t \in OsIds : ThreadCleanup(t)
    \/ \E t \in OsIds : ThreadExits(t)
    \/ PthreadCreate(MainThread, FALSE, TRUE, ScenarioThreads)
    \/ FirstFinished /\ PthreadCreate(MainThread, FALSE, TRUE, 2 * ScenarioThreads)
    \/ created = ScenarioThreads /\ FirstFinished
          /\ \E op \in {"join", "detach"}, id \in 1..ScenarioThreads :
                Call(MainThread, op, id, TRUE)
    \/ JoinPollEnds(MainThread)
    \/ JoinReturns(MainThread)
    \/ CallReturned(MainThread)

SpecRecycle == InitRecycle /\ [][NextRecycle]_vars

--------------------------------------------------------------------------
(* The thread layer with recycling when the routines call the wrappers too   *)

AllCallers == {MainThread} \cup OsIds

InitCallers ==
    /\ FrameInit({IdleConfig})
    /\ ThreadInit(TRUE, MaxThreads, MaxCreates)

NextCallers ==
    \/ \E t \in OsIds : ThreadRegister(t)
    \/ \E t \in OsIds : ThreadCheckRuns(t)
    \/ \E t \in OsIds : ThreadCheckWaits(t)
    \/ \E t \in OsIds : ThreadWait(t)
    \/ \E t \in OsIds, v \in RetVals : RoutineReturns(t, v)
    \/ \E t \in OsIds : ThreadCleanup(t)
    \/ \E t \in OsIds : ThreadExits(t)
    \/ \E c \in AllCallers, det \in BOOLEAN, ok \in BOOLEAN :
          PthreadCreate(c, det, ok, MaxCreates)
    \/ \E c \in AllCallers, op \in JoinOps, id \in OsIds, valid \in BOOLEAN :
          Call(c, op, id, valid)
    \/ \E c \in AllCallers : CallResumes(c)
    \/ \E c \in AllCallers : JoinPollEnds(c)
    \/ \E c \in AllCallers : JoinReturns(c)
    \/ \E c \in AllCallers : TimedJoinWakes(c)
    \/ \E c \in AllCallers : CallReturned(c)

SpecCallers == InitCallers /\ [][NextCallers]_vars

--------------------------------------------------------------------------
(* The main thread creates, joins and detaches threads between its frame     *)
(* boundaries, in which the controller asks for snapshots                    *)

InGameCode == fpc = "idle" /\ cpc[MainThread] = Idle

InitCheckpoint ==
    /\ FrameInit({IdleConfig})
    /\ ThreadInit(TRUE, MaxThreads, MaxCreates)

NextCheckpoint ==
    \/ InGameCode /\ FrameBoundaryBegin(TRUE, 1)
    \/ ReceiveFirst
    \/ ReceiveSavestate
    \/ ReceiveEnd
    \/ \E t \in OsIds : ThreadRegister(t)
    \/ \E t \in OsIds : ThreadCheckRuns(t)
    \/ \E t \in OsIds : ThreadCheckWaits(t)
    \/ \E t \in OsIds : ThreadWait(t)
    \/ \E t \in OsIds, v \in RetVals : RoutineReturns(t, v)
    \/ \E t \in OsIds : ThreadCleanup(t)
    \/ \E t \in OsIds : ThreadExits(t)
    \/ \E det \in BOOLEAN :
          InGameCode /\ PthreadCreate(MainThread, det, TRUE, MaxCreates)
    \/ \E op \in JoinOps, id \in OsIds :
          InGameCode /\ Call(MainThread, op, id, TRUE)
    \/ CallResumes(MainThread)
    \/ JoinPollEnds(MainThread)
    \/ JoinReturns(MainThread)
    \/ TimedJoinWakes(MainThread)
    \/ CallReturned(MainThread)

SpecCheckpoint == InitCheckpoint /\ [][NextCheckpoint]_vars

--------------------------------------------------------------------------
(* skipDraw on its own: the skip decisions of successive frames under a      *)
(* configuration that leaves the decision to the frequency, the frame rate   *)
(* (held in fps as a multiple of 1 / FpsDen) changing at will                *)

FrequencyConfig == Config(TRUE, TRUE, FALSE, FALSE, TRUE, FALSE)

InitSkipFreq ==
    /\ FrameState({FrequencyConfig})
    /\ trace = EmptyTrace
    /\ ThreadInit(TRUE, 1, 1)

\* computeFPS(fps, lfps) delivers a new value
ComputeFps(n) ==
    /\ UNCHANGED <<threadVars, fileVars>>
    /\ fps # n
    /\ fps' = n
    /\ UNCHANGED <<framecount, didASavestate, skipping_draw, skip_counter,
                   shared_config, saveBacktrack, is_exiting, avencoder, drawFB,
                   fpc, snapshot, restoreInProgress, sent, nmsgs, calls, draws,
                   restores, endSeen, ticks, channel, trace>>

\* skipping_draw = skipDraw(fps); the record holds the decisions since the
\* last one not to skip, that one included
DecideSkip ==
    /\ UNCHANGED <<threadVars, fileVars>>
    /\ calls < MaxDecisions
    /\ calls' = calls + 1
    /\ \E r \in SkipDrawOf(shared_config, fps, FpsDen, skip_counter) :
         /\ skipping_draw' = r[1]
         /\ skip_counter' = r[2]
         /\ IF trace.ev # <<>> /\ trace.ev[Len(trace.ev)] = <<"do", "draw">>
            THEN RecordCall(<<<<"do", IF r[1] THEN "skip" ELSE "draw">>>>)
            ELSE Record(<<<<"do", IF r[1] THEN "skip" ELSE "draw">>>>)
    /\ UNCHANGED <<framecount, didASavestate, shared_config, fps, saveBacktrack,
                   is_exiting, avencoder, drawFB, fpc, snapshot, restoreInProgress,
                   sent, nmsgs, draws, restores, endSeen, ticks, channel>>

NextSkipFreq ==
    \/ \E n \in 0..MaxFpsNum : ComputeFps(n)
    \/ DecideSkip

SpecSkipFreq == InitSkipFreq /\ [][NextSkipFreq]_vars

--------------------------------------------------------------------------
(* The thread layer with recycling under fair scheduling: the main thread    *)
(* creates, joins and detaches threads; the routines detach and try to join  *)
(* other threads, and return or exit; a call that finds the wrapper          *)
(* execution lock held waits for it                                          *)

NonBlockingOps == {"detach", "tryjoin", "timedjoin"}

InitFair ==
    /\ FrameInit({IdleConfig})
    /\ ThreadInit(TRUE, MaxThreads, MaxCreates)

NextFair ==
    \/ \E t \in OsIds : ThreadRegister(t)
    \/ \E t \in OsIds : ThreadCheckRuns(t)
    \/ \E t \in OsIds : ThreadCheckWaits(t)
    \/ \E t \in OsIds : ThreadWait(t)
    \/ \E t \in OsIds, v \in RetVals : RoutineReturns(t, v)
    \/ \E t \in OsIds, v \in RetVals : RoutineCallsExit(t, v)
    \/ \E t \in OsIds : ThreadCleanup(t)
    \/ \E t \in OsIds : ThreadExits(t)
    \/ \E det \in BOOLEAN : PthreadCreate(MainThread, det, TRUE, MaxCreates)
    \/ \E id \in OsIds : Call(MainThread, "join", id, TRUE)
    \/ \E c \in AllCallers, op \in NonBlockingOps, id \in OsIds :
          id # c /\ Call(c, op, id, TRUE)
    \/ \E c \in OsIds, op \in NonBlockingOps, id \in OsIds :
          id # c /\ LockWait(c, op, id)
    \/ \E c \in AllCallers : CallResumes(c)
    \/ \E c \in AllCallers : JoinPollEnds(c)
    \/ \E c \in AllCallers : JoinReturns(c)
    \/ \E c \in AllCallers : TimedJoinWakes(c)
    \/ \E c \in AllCallers : CallReturned(c)

\* Every OS thread that can take a step of the trampoline, of its routine
\* or of a wrapper it is in takes one; a routine that is not inside a
\* wrapper ends
Fairness ==
    /\ \A t \in 1..MaxThreads :
          /\ WF_vars(ThreadRegister(t))
          /\ WF_vars(ThreadCheckRuns(t))
          /\ WF_vars(ThreadCheckWaits(t))
          /\ WF_vars(ThreadWait(t))
          /\ WF_vars(\E v \in RetVals : RoutineReturns(t, v))
          /\ WF_vars(ThreadCleanup(t))
          /\ WF_vars(ThreadExits(t))
    /\ \A c \in 0..MaxThreads :
          /\ WF_vars(cpc[c].stage = "lockwait" /\ Call(c, cpc[c].op, cpc[c].id, TRUE))
          /\ WF_vars(CallResumes(c))
          /\ WF_vars(JoinPollEnds(c))
          /\ WF_vars(JoinReturns(c))
          /\ WF_vars(TimedJoinWakes(c))
          /\ WF_vars(CallReturned(c))

SpecFair == InitFair /\ [][NextFair]_vars /\ Fairness

--------------------------------------------------------------------------
(* The thread layer in either mode: recycle_threads is fixed at start-up     *)

InitAnyMode ==
    /\ FrameInit({IdleConfig})
    /\ \E recycle \in BOOLEAN : ThreadInit(recycle, MaxThreads, MaxCreates)

NextAnyMode ==
    \/ \E t \in OsIds : ThreadRegister(t)
    \/ \E t \in OsIds : ThreadCheckRuns(t)
    \/ \E t \in OsIds : ThreadCheckWaits(t)
    \/ \E t \in OsIds : ThreadWait(t)
    \/ \E t \in OsIds : RoutineUsesTls(t)
    \/ \E t \in OsIds, v \in RetVals : RoutineReturns(t, v)
    \/ \E t \in OsIds, v \in RetVals : RoutineCallsExit(t, v)
    \/ \E t \in OsIds : ThreadCleanup(t)
    \/ \E t \in OsIds : ThreadExits(t)
    \/ \E c \in Callers, det \in BOOLEAN, ok \in BOOLEAN :
          PthreadCreate(c, det, ok, MaxCreates)
    \/ \E c \in Callers, op \in JoinOps, id \in OsIds, valid \in BOOLEAN :
          Call(c, op, id, valid)
    \/ \E c \in Callers : CallResumes(c)
    \/ \E c \in Callers : JoinPollEnds(c)
    \/ \E c \in Callers : JoinReturns(c)
    \/ \E c \in Callers : OsJoinReturns(c)
    \/ \E c \in Callers : TimedJoinWakes(c)
    \/ \E c \in Callers : CallReturned(c)

SpecAnyMode == InitAnyMode /\ [][NextAnyMode]_vars

--------------------------------------------------------------------------
(* Virtual time: frames, and condition waits of the game between them        *)

InitTimer == FrameInit({IdleConfig}) /\ ThreadInit(TRUE, 1, 1)

NextTimer ==
    \/ \E d \in BOOLEAN : FrameBoundaryBegin(d, MaxFrames)
    \/ ReceiveRamwatch
    \/ ReceiveFirst
    \/ ReceiveEnd
    \/ \E isMain \in BOOLEAN, policy \in WaitPolicies, abstime \in 0..MaxAbstime,
          signalled \in BOOLEAN :
          PthreadCondTimedwait(isMain, policy, abstime, signalled)

SpecTimer == InitTimer /\ [][NextTimer]_vars

--------------------------------------------------------------------------
(* The condition-variable wrappers, called between frames, with what each    *)
(* call does recorded in order                                               *)

PassOps == {"pthread_cond_wait", "pthread_cond_signal", "pthread_cond_broadcast"}

InitWait == FrameState({IdleConfig}) /\ trace = EmptyTrace /\ ThreadInit(TRUE, 1, 1)

NextWait ==
    \/ \E d \in BOOLEAN : FrameBoundaryBegin(d, MaxFrames)
    \/ ReceiveFirst
    \/ ReceiveEnd
    \/ \E isMain \in BOOLEAN, policy \in WaitPolicies, abstime \in 0..MaxAbstime,
          signalled \in BOOLEAN :
          PthreadCondTimedwait(isMain, policy, abstime, signalled)
    \/ \E op \in PassOps, cond \in Conds, native \in BOOLEAN :
          PthreadCondPass(op, cond, native)

SpecWait == InitWait /\ [][NextWait]_vars

--------------------------------------------------------------------------
(* The save-file registry under any sequence of calls of the game, the       *)
(* prevent_savefiles setting and the file system being what they may         *)

InitSaveFiles == FrameInit({IdleConfig}) /\ ThreadInit(TRUE, 1, 1)

NextSaveFiles ==
    \/ \E file \in Paths, write \in BOOLEAN : OpenSaveFile(file, write)
    \/ \E file \in Paths, prevent \in BOOLEAN, writable \in BOOLEAN :
            RemoveSaveFile(file, prevent, writable)
    \/ \E old \in Paths, new \in Paths, canonical \in BOOLEAN,
          prevent \in BOOLEAN, writable \in BOOLEAN :
            RenameSaveFile(old, new, canonical, prevent, writable)

SpecSaveFiles == InitSaveFiles /\ [][NextSaveFiles]_vars

--------------------------------------------------------------------------
(* The frame boundary under a controller that may go away at any time       *)

InitBroken == FrameInit({IdleConfig}) /\ ThreadInit(TRUE, 1, 1)

NextBroken ==
    \/ \E d \in BOOLEAN : FrameBoundaryBegin(d, MaxFrames)
    \/ ReceiveRamwatch
    \/ ReceiveFirst
    \/ ReceiveUserQuit
    \/ ReceiveData
    \/ ReceiveExpose
    \/ ReceiveEnd
    \/ ReceiveUnknown
    \/ ControllerExits

SpecBroken == InitBroken /\ [][NextBroken]_vars

--------------------------------------------------------------------------
(* The skip decision under every configuration: the game starts with any     *)
(* configuration and the controller may deliver any other in each frame      *)

InitSkipDraw == FrameInit(ConfigSet) /\ ThreadInit(TRUE, 1, 1)

NextSkipDraw ==
    \/ \E d \in BOOLEAN : FrameBoundaryBegin(d, MaxFrames)
    \/ ReceiveFirst
    \/ \E c \in ConfigSet : ReceiveConfig(c)
    \/ ReceiveEnd

SpecSkipDraw == InitSkipDraw /\ [][NextSkipDraw]_vars

--------------------------------------------------------------------------
(* Claims on the frame boundary *)

StartsSent == sent["START_FRAMEBOUNDARY"]

\* C1: every frameBoundary call increases the frame counter by exactly 1,
\* exactly once, whatever drawFB, the skip flag and the messages exchanged (no
\* other step of a call changes it unless a snapshot is restored); after n
\* calls with no snapshot restore the counter is its initial value 0 plus n.
C1_FrameCounterStep ==
    /\ [][/\ calls' = calls + 1 => framecount' = framecount + 1
          /\ (calls' = calls /\ restores' = restores) => framecount' = framecount]_vars
    /\ [](restores = 0 => framecount = calls)

\* C1 witness: two calls made, the second with drawFB false and decided to skip
C1_Witness ==
    /\ calls = 2 /\ restores = 0 /\ framecount = 2
    /\ fpc = "idle" /\ ~drawFB /\ skipping_draw /\ nmsgs = MaxMsgs

\* C2 (as stated): each call sends exactly one start-of-frame marker and
\* returns only after MSGN_END_FRAMEBOUNDARY has been received in that call.
C2_ReturnsOnlyAfterEnd ==
    /\ fpc # "idle" => StartsSent = 1
    /\ (fpc = "idle" /\ calls > 0) => (StartsSent = 1 /\ endSeen = "end")

\* C2 (amended): each call sends exactly one start-of-frame marker and returns
\* only after its receive loop has received MSGN_END_FRAMEBOUNDARY or a message
\* with an unrecognized tag.
C2_ReturnsOnlyAfterEndOrUnknown ==
    /\ fpc # "idle" => (StartsSent = 1 /\ endSeen = "none")
    /\ (fpc = "idle" /\ calls > 0) => (StartsSent = 1 /\ endSeen \in {"end", "unknown"})

\* C2 witness: a call that has returned on the end-of-frame marker after
\* other messages were handled
C2_Witness ==
    fpc = "idle" /\ calls = 2 /\ endSeen = "end" /\ StartsSent = 1 /\ nmsgs = MaxMsgs

\* C3 (as stated): in the scenario the draw callback is never invoked, and
\* the frame counter is ScenarioFrames after ScenarioFrames calls.
C3_NeverDraws ==
    /\ draws = 0
    /\ (calls = ScenarioFrames /\ fpc = "idle") => framecount = ScenarioFrames

\* C3 (amended): in the scenario the draw callback is invoked only during the
\* first call (the skip flag is clear in the initial state and is decided at
\* the end of a call for the next one); from the second call on it is invoked
\* 0 times, by the draw step or by a redraw request, and the frame counter is
\* ScenarioFrames after ScenarioFrames calls.
C3_DrawsOnlyInFirstCall ==
    /\ [][calls >= 2 => draws' = draws]_vars
    /\ [](calls >= 2 => skipping_draw)
    /\ []((calls = ScenarioFrames /\ fpc = "idle") => framecount = ScenarioFrames)

\* C3 witness: the scenario has run to its end and the first call has drawn
C3_Witness ==
    calls = ScenarioFrames /\ fpc = "idle" /\ framecount = ScenarioFrames /\ draws >= 1

--------------------------------------------------------------------------
(* Claims on the thread layer *)

\* The call of c ends in this step
Returns(c) == cpc[c].stage # "returned" /\ cpc'[c].stage = "returned"

\* The record the call that ends in this step is about (0: none)
Target(c) == GetThread(threads, cpc'[c].id)

\* C4 (as stated, its consequence): the number of OS threads ever spawned never
\* exceeds the greatest number of logical threads that were running (state
\* RUNNING) at the same time.
C4_SpawnedAtMostMaxRunning == spawned <= maxRunning

\* C4 (amended): with recycling, pthread_create never spawns an OS thread while
\* a parked slot exists, and the number of OS threads ever spawned never
\* exceeds the greatest number of logical threads that existed unreleased
\* (running, or finished and not yet joined or detached) at the same time.
C4_SpawnedAtMostMaxLive ==
    /\ [][spawned' # spawned => (spawned' = spawned + 1 /\ ParkedSlots(threads) = {})]_vars
    /\ [](spawned <= maxLive)

\* C4 witness: the second create has recycled the only OS thread
C4_Witness ==
    /\ created = 2 /\ spawned = 1 /\ maxLive = 1
    /\ cpc[MainThread].stage = "returned" /\ cpc[MainThread].op = "create"
    /\ cpc[MainThread].ret = "OK"

\* The threads created first in the recycling scenario, and those created next
FirstThreads == 1..ScenarioThreads

NextThreadsCreated == (ScenarioThreads + 1)..(2 * ScenarioThreads)

\* Each of the first threads has finished and has been joined or detached
AllFirstReleased == \A l \in FirstThreads : hist[l].exited /\ hist[l].released

\* C5 (as stated): once the first ScenarioThreads threads have been created and
\* their routines have returned, the further creates spawn no OS thread.
C5_NoSpawnAfterRoutinesReturned ==
    created > ScenarioThreads => spawned = ScenarioThreads

\* C5 (amended): once the first ScenarioThreads threads have been created, their
\* routines have returned and each has been joined or detached, the further
\* creates spawn no OS thread; each of the original OS threads is handed
\* exactly one of the new routines, and its thread-local state is clean when
\* a routine starts.
C5_NoSpawnAfterRelease ==
    /\ []((created > ScenarioThreads /\ AllFirstReleased) => spawned = ScenarioThreads)
    /\ []((created = 2 * ScenarioThreads /\ AllFirstReleased)
           => ({Routine(os[t].slot) : t \in FirstThreads} = NextThreadsCreated))
    /\ [][\A t \in OsIds :
            (os[t].pc = "check" /\ os'[t].pc = "routine") => os[t].tls = "clean"]_vars

\* C5 witness: all the creates are done, no OS thread was spawned after the
\* first ones, and each of these runs one of the new routines
C5_Witness ==
    /\ created = 2 * ScenarioThreads /\ spawned = ScenarioThreads /\ AllFirstReleased
    /\ \A t \in FirstThreads : os[t].pc = "routine" /\ Routine(os[t].slot) > ScenarioThreads
    /\ {Routine(os[t].slot) : t \in FirstThreads} = NextThreadsCreated

\* The logical threads created so far
Created == 1..created

\* C6 (as stated): without recycling, the number of occupied registry slots
\* equals the number of logical threads successfully created and not yet
\* joined or detached by a call.
C6_OccupiedIsNotYetJoinedOrDetached ==
    Cardinality(Occupied(threads)) = Cardinality({l \in Created : ~hist[l].released})

\* C6 (amended): without recycling, the number of occupied registry slots
\* equals the number of logical threads successfully created that have not yet
\* both finished and been detached (created detached, detached by
\* pthread_detach, or joined by a join, try-join or timed-join).
C6_OccupiedIsNotYetFinishedAndDetached ==
    Cardinality(Occupied(threads)) =
        Cardinality({l \in Created :
            ~(hist[l].exited /\ (hist[l].released \/ hist[l].createdDetached))})

\* C6 witness: of two threads created, one was joined after it finished and has
\* left the registry, the other was detached and still runs: one slot is
\* occupied
C6_Witness ==
    /\ created = 2
    /\ Cardinality(Occupied(threads)) = 1
    /\ \E l \in Created : hist[l].exited /\ hist[l].released /\ ~hist[l].createdDetached
    /\ \E l \in Created : ~hist[l].exited /\ hist[l].released
    /\ cpc[MainThread].stage = "returned" /\ cpc[MainThread].op = "detach"
    /\ cpc[MainThread].ret = "OK"

\* C7: pthread_join on a known thread whose detached flag is set returns EINVAL
\* without waiting (it never enters the poll nor the OS join) and leaves the
\* registry as it was.
C7_JoinDetached ==
    [][\A c \in Callers :
        /\ (/\ cpc'[c].op = "join"
            /\ cpc[c].stage \notin {"poll", "osjoin"}
            /\ cpc'[c].stage \in {"poll", "osjoin"})
           => ~threads[Target(c)].detached
        /\ (/\ Returns(c)
            /\ cpc'[c].op = "join"
            /\ Target(c) # 0
            /\ threads[Target(c)].detached)
           => (/\ cpc'[c].ret = "EINVAL"
               /\ threads' = threads
               /\ lock' = NoHolder)]_vars

\* C7 witness: a join on a detached thread, still in the registry, has returned
\* EINVAL
C7_Witness ==
    /\ cpc[MainThread].stage = "returned" /\ cpc[MainThread].op = "join"
    /\ cpc[MainThread].ret = "EINVAL"
    /\ GetThread(threads, cpc[MainThread].id) # 0
    /\ threads[GetThread(threads, cpc[MainThread].id)].detached
    /\ threads[GetThread(threads, cpc[MainThread].id)].state = "RUNNING"

\* C8: a timed join that timed out leaves the thread joinable: a later join,
\* try-join or timed-join on the same identity that finds the thread ZOMBIE and
\* joins it succeeds (returns 0).
C8_JoinableAfterTimeout ==
    [][\A c \in Callers :
        (/\ Returns(c)
         /\ cpc'[c].op \in {"join", "tryjoin", "timedjoin"}
         /\ Target(c) # 0
         /\ hist[Routine(Target(c))].timedOut
         /\ threads[Target(c)].state = "ZOMBIE"
         /\ ~threads[Target(c)].detached
         /\ cpc'[c].joined)
        => cpc'[c].ret = "OK"]_vars

\* C9: try-join and timed-join return 0 exactly when they have joined the
\* target, and EBUSY or ETIMEDOUT only when they left it untouched.
C9_SuccessIffJoined ==
    \A c \in Callers :
        (cpc[c].stage = "returned" /\ cpc[c].op \in {"tryjoin", "timedjoin"})
        => /\ (cpc[c].ret = "OK") <=> cpc[c].joined
           /\ cpc[c].ret \in {"EBUSY", "ETIMEDOUT"} => ~cpc[c].joined

\* C10: with recycling, pthread_join returns 0 only in a step that finds the
\* target's state ZOMBIE.
C10_JoinReturnsAtZombie ==
    [][\A c \in Callers :
        (Returns(c) /\ cpc'[c].op = "join" /\ cpc'[c].ret = "OK")
        => (Target(c) # 0 /\ threads[Target(c)].state = "ZOMBIE")]_vars

\* C10 witness: a join that had to poll has returned 0
C10_Witness ==
    /\ cpc[MainThread].stage = "returned" /\ cpc[MainThread].op = "join"
    /\ cpc[MainThread].ret = "OK" /\ cpc[MainThread].joined
    /\ threads[GetThread(threads, cpc[MainThread].id)].state = "PARKED"

\* C11: a pthread_join that has returned 0 has delivered through thread_return
\* the value the target's routine handed over when it ended.
C11_JoinDeliversResult ==
    \A c \in Callers :
        (/\ cpc[c].stage = "returned" /\ cpc[c].op = "join" /\ cpc[c].ret = "OK"
         /\ GetThread(threads, cpc[c].id) # 0)
        => cpc[c].value = hist[Routine(GetThread(threads, cpc[c].id))].result

\* The call of c that ends in this step finds no record of its identity
Unknown(c) ==
    /\ Returns(c)
    /\ cpc'[c].op \in JoinOps
    /\ Target(c) = 0

\* C12 (as stated): pthread_join, pthread_detach, pthread_tryjoin_np and
\* pthread_timedjoin_np called with an identity that is not in the registry
\* return ESRCH and leave the registry unchanged.
C12_UnknownIsESRCH ==
    [][\A c \in Callers :
        Unknown(c) => (cpc'[c].ret = "ESRCH" /\ threads' = threads)]_vars

\* C12 (amended): the same, for pthread_timedjoin_np only when abstime is
\* well-formed; with a malformed abstime it returns EINVAL before the lookup.
\* The registry and the lock are left as they were in both cases.
C12_UnknownIsESRCHUnlessMalformed ==
    [][\A c \in Callers :
        Unknown(c) => /\ cpc'[c].ret = (IF cpc'[c].valid THEN "ESRCH" ELSE "EINVAL")
                      /\ ~cpc'[c].valid => cpc'[c].op = "timedjoin"
                      /\ threads' = threads
                      /\ lock' = NoHolder]_vars

\* C12 witness: a call on an identity that is no longer registered, while
\* another thread is, has returned ESRCH
C12_Witness ==
    /\ cpc[MainThread].stage = "returned" /\ cpc[MainThread].op \in JoinOps
    /\ cpc[MainThread].ret = "ESRCH"
    /\ GetThread(threads, cpc[MainThread].id) = 0
    /\ cpc[MainThread].id <= spawned
    /\ Occupied(threads) # {}

\* The logical thread that was last given the identity id (0: none was)
Holder(id) ==
    LET given == {l \in Created : hist[l].identity = id}
    IN  IF given = {} THEN 0 ELSE CHOOSE l \in given : \A k \in given : k <= l

\* The call of c that ends in this step is a pthread_detach that returns 0: its
\* target was registered and not detached, and is now marked detached or
\* released
DetachMarks(c) ==
    (Returns(c) /\ cpc'[c].op = "detach" /\ cpc'[c].ret = "OK")
    => /\ Target(c) # 0
       /\ ~threads[Target(c)].detached
       /\ threads'[Target(c)].detached \/ threads'[Target(c)] = NoThread

\* What a join or detach on identity id returns once it must fail
FailsAsDetached(c) ==
    cpc'[c].ret = (IF Target(c) # 0 THEN "EINVAL" ELSE "ESRCH")

\* C13 (as stated): pthread_detach on a known, non-detached thread marks it
\* detached; any later pthread_detach or pthread_join on the same identity
\* fails, with EINVAL if a record of that identity is registered and ESRCH if
\* none is.
C13_DetachedIdentityFails ==
    [][\A c \in Callers :
        /\ DetachMarks(c)
        /\ (/\ Returns(c)
            /\ cpc'[c].op \in {"join", "detach"}
            /\ \E l \in Created : hist[l].identity = cpc'[c].id /\ hist[l].detachOK)
           => FailsAsDetached(c)]_vars

\* C13 (amended): the same, for a later pthread_detach or pthread_join made
\* before pthread_create has given the identity out again to a new thread.
C13_DetachedThreadFails ==
    [][\A c \in Callers :
        /\ DetachMarks(c)
        /\ (/\ Returns(c)
            /\ cpc'[c].op \in {"join", "detach"}
            /\ Holder(cpc'[c].id) # 0
            /\ hist[Holder(cpc'[c].id)].detachOK)
           => FailsAsDetached(c)]_vars

\* C13 witness: a pthread_detach on the identity of a thread that an earlier
\* pthread_detach has detached has returned EINVAL
C13_Witness ==
    /\ cpc[MainThread].stage = "returned" /\ cpc[MainThread].op = "detach"
    /\ cpc[MainThread].ret = "EINVAL"
    /\ Holder(cpc[MainThread].id) # 0
    /\ hist[Holder(cpc[MainThread].id)].detachOK
    /\ ~hist[Holder(cpc[MainThread].id)].createdDetached

\* C14: with recycling, a routine that has ended (by pthread_exit or by
\* returning) executes nothing more: an OS thread is in routine code only while
\* its logical thread has handed over no value and has not left RUNNING; from
\* the end of the routine to threadExit the record stays RUNNING; the record
\* leaves RUNNING once, in threadExit; and every started OS thread stays
\* registered under its own identity.
C14_ExitEndsRoutine ==
    recycle_threads =>
    \A t \in OsIds :
        os[t].pc # "none" =>
        LET s == os[t].slot
            l == Routine(s)
        IN  /\ os[t].pc = "routine"
               => (hist[l].result = "none" /\ ~hist[l].exited
                   /\ threads[s].state = "RUNNING")
            /\ os[t].pc \in {"ended", "cleaned"}
               => (hist[l].result # "none" /\ ~hist[l].exited
                   /\ threads[s].state = "RUNNING")
            /\ (os[t].pc \in {"check", "prewait", "waiting"}
                /\ threads[s].state # "RUNNING")
               => (hist[l].exited /\ threads[s].state \in {"ZOMBIE", "PARKED"})
            /\ os[t].pc # "spawned" => GetThread(threads, t) = s

\* C14 witness: a thread whose routine called pthread_exit (the trampoline's
\* ret was never assigned) is ZOMBIE and its OS thread waits to be reassigned
C14_Witness ==
    /\ recycle_threads
    /\ \E t \in OsIds :
          /\ os[t].pc = "waiting"
          /\ threads[os[t].slot].state = "ZOMBIE"
          /\ threads[os[t].slot].retval = "garbage"
          /\ hist[Routine(os[t].slot)].exited

C18_UnknownEndsFrame ==
    [][/\ (fpc = "loop" /\ endSeen' = "unknown")
          => /\ fpc' = "idle"
             /\ <<skipping_draw', skip_counter'>> \in
                    SkipDraw(shared_config, fps, skip_counter)
             /\ UNCHANGED <<framecount, didASavestate, shared_config, fps,
                            saveBacktrack, is_exiting, avencoder, drawFB, snapshot,
                            restoreInProgress, sent, nmsgs, calls, draws, restores,
                            ticks, channel>>
       /\ (fpc = "idle" /\ endSeen = "unknown" /\ fpc' # "idle")
          => /\ fpc' = "first"
             /\ framecount' = framecount + 1
             /\ sent' = SendFrameStart(NoSent, DoBacktrack)
             /\ nmsgs' = 0
             /\ endSeen' = "none"]_vars

\* C18 witness: the second call has returned after its receive loop, having
\* handled other messages, received an unrecognized tag
C18_Witness ==
    fpc = "idle" /\ calls = 2 /\ endSeen = "unknown" /\ StartsSent = 1 /\ nmsgs >= 1

\* A receive of the frame boundary completes in this step
Receives ==
    /\ fpc \in {"first", "loop", "resync"}
    /\ nmsgs' # nmsgs \/ fpc' # fpc

\* C19: a receive that fails because the controller has gone makes the
\* process exit: the frame boundary neither receives again nor returns to the
\* game to run further frames.
C19_BrokenChannelExits ==
    [][(channel = "broken" /\ Receives) => fpc' = "exited"]_vars

\* C20: once a frame boundary has returned, the skip decision it took for the
\* next frame is: no skip when fast-forward is off, none when execution is not
\* running, none when AV dumping is on, whatever the "skip all rendering" mode;
\* and a skip when none of the three holds and that mode is active.
C20_SkipDecision ==
    (fpc = "idle" /\ endSeen = "end")
    => /\ ~shared_config.fastforward => ~skipping_draw
       /\ ~shared_config.running => ~skipping_draw
       /\ shared_config.av_dumping => ~skipping_draw
       /\ (/\ shared_config.fastforward
           /\ shared_config.running
           /\ ~shared_config.av_dumping
           /\ shared_config.ff_rendering) => skipping_draw

\* C20 witness: a frame boundary has decided not to skip under fast-forward,
\* running, with both AV dumping and the "skip all rendering" mode on, at the
\* end of a second frame that was itself skipped
C20_Witness ==
    /\ fpc = "idle" /\ endSeen = "end" /\ calls = 2
    /\ shared_config.fastforward /\ shared_config.running
    /\ shared_config.av_dumping /\ shared_config.ff_rendering
    /\ ~skipping_draw
    /\ draws = 1

\* C16: virtual time never regresses: of two getTicks() samples the later is
\* at least the earlier, whatever frame boundaries and condition waits of the
\* main thread come between them.
C16_TicksNeverRegress == [][GetTicks' >= GetTicks]_vars

\* C17: a pthread_create whose orig::pthread_create fails returns the platform
\* error code and leaves the registry, the uninitialized-thread counter and
\* the number of OS threads as they were before the call, with the wrapper
\* execution lock free.
C17_CreateFailureUndone ==
    [][\A c \in Callers :
        (Returns(c) /\ cpc'[c].op = "create" /\ cpc'[c].ret # "OK")
        => /\ cpc'[c].ret = "EAGAIN"
           /\ threads[GetNewThread(threads)].state = "NONE"
           /\ threads' = threads
           /\ uninit' = uninit
           /\ spawned' = spawned
           /\ lock' = NoHolder]_vars

\* C17 witness: a pthread_create has failed while another thread, created
\* before, is registered and a third is still being initialized
C17_Witness ==
    /\ cpc[MainThread].stage = "returned" /\ cpc[MainThread].op = "create"
    /\ cpc[MainThread].ret = "EAGAIN"
    /\ Cardinality(Occupied(threads)) = 1
    /\ uninit = 1
    /\ lock = NoHolder

\* Caller c is between wrapperExecutionLockLock() and
\* wrapperExecutionLockUnlock() of a join, detach, try-join or timed-join
InOperation(c) == cpc[c].stage \in {"locked", "poll", "detach", "osjoin", "sleep"}

\* Caller c takes a step of a lifecycle operation: it enters one, goes on
\* with one or comes back from one
OperationStep(c) == cpc'[c] # cpc[c] /\ cpc'[c] # Idle

\* C21: lifecycle operations do not interleave: a caller takes a step of a
\* create, join, detach, try-join or timed-join only when no other thread
\* holds the wrapper execution lock, the lock is held by exactly the caller
\* that is inside an operation, and at most one caller is inside one
C21_LifecycleOperationsExclusive ==
    [][/\ \A c \in AllCallers : OperationStep(c) => lock \in {NoHolder, c}
       /\ \A c \in AllCallers : InOperation(c)' <=> lock' = c
       /\ Cardinality({c \in AllCallers : InOperation(c)'}) <= 1]_vars

\* C21 witness: the main thread is inside a join, holding the lock, while
\* two routines are running game code that may call a wrapper at any time
C21_Witness ==
    /\ cpc[MainThread].stage = "poll"
    /\ lock = MainThread
    /\ \A t \in OsIds : os[t].pc = "routine" /\ cpc[t] = Idle

\* The step handles a snapshot request: a message of the receive loop is
\* consumed and a snapshot is captured
Captures == nmsgs' = nmsgs + 1 /\ didASavestate' /\ snapshot' = Capture

\* The step takes caller c of a join, detach, try-join or timed-join past the
\* wait for thread initialization, to the lookup of the thread in the registry
LookupStep(c) ==
    /\ cpc[c].stage \in {"none", "locked"}
    /\ cpc'[c].op \in JoinOps
    /\ cpc'[c].stage \in {"returned", "poll", "osjoin", "sleep"}

\* C22: a snapshot is captured, and a join, detach, try-join or timed-join
\* looks a thread up, only when no thread is still being initialized
C22_WaitsForInitialization ==
    [][/\ Captures => uninit = 0
       /\ \A c \in Callers : LookupStep(c) => uninit = 0]_vars

\* C22 witness: the main thread, which has looked up and detached its first
\* thread, is in the receive loop of a frame boundary while its second thread
\* has not finished its initialization: no snapshot has been captured
C22_Witness ==
    /\ fpc = "loop"
    /\ uninit > 0
    /\ ~didASavestate
    /\ created = 2
    /\ \E l \in Created : hist[l].released

\* The OS threads that are executing the routine body of logical thread l
Executing(l) == {t \in OsIds : os[t].pc = "routine" /\ Routine(os[t].slot) = l}

\* C23: at most one OS thread is executing the routine body of a logical
\* thread, in either mode and whatever was created, exited, joined, detached
\* or recycled before
C23_OneBodyPerLogicalThread ==
    \A l \in 1..MaxCreates : Cardinality(Executing(l)) <= 1

\* C23 witness: with recycling, the only OS thread spawned so far has run a
\* first routine to its end and is executing the routine of the second
\* logical thread
C23_Witness ==
    /\ recycle_threads
    /\ spawned = 1
    /\ created = 2
    /\ hist[1].exited
    /\ Executing(2) = {1}

\* The step hands record s, which held a logical thread, a new routine
Reassigned(s) ==
    /\ threads[s].state # "NONE"
    /\ threads'[s].state = "RUNNING"
    /\ threads'[s].start # threads[s].start

\* C24, as stated: a record is handed a new routine only with recycling, only
\* when the logical thread it held has finished and been released (it is
\* parked, not a zombie), and only after a join, try-join, timed-join or
\* detach call has released that logical thread
C24_ReassignedAfterJoinOrDetach ==
    [][\A s \in Slots : Reassigned(s) =>
          /\ recycle_threads
          /\ threads[s].state = "PARKED"
          /\ hist[Routine(s)].exited
          /\ hist[Routine(s)].released]_vars

\* C24, amended: as above, the logical thread having been released by a
\* join, try-join, timed-join or detach call, or by its own end when it was
\* created detached
C24_ReassignedAfterRelease ==
    [][\A s \in Slots : Reassigned(s) =>
          /\ recycle_threads
          /\ threads[s].state = "PARKED"
          /\ hist[Routine(s)].exited
          /\ hist[Routine(s)].released \/ hist[Routine(s)].createdDetached]_vars

\* C24 witness: with recycling, the first thread has ended and been joined or
\* detached, its record runs the routine of the second logical thread on the
\* same OS thread, and no other OS thread was spawned
C24_Witness ==
    /\ recycle_threads
    /\ hist[1].exited /\ hist[1].released /\ ~hist[1].createdDetached
    /\ created = 2
    /\ spawned = 1
    /\ \E s \in Slots : threads[s].state = "RUNNING" /\ Routine(s) = 2

\* What the call in progress (or the last one) has done so far
Effects == trace.ev

\* The i-th effect of the call is the receipt of a message with that tag
ReceivedAt(i, tag) == Effects[i] = <<"recv", tag>>

\* C25: the controller's turn ends on the first end-of-frame message sent
\* after the start-of-frame marker: once MSGN_END_FRAMEBOUNDARY has been
\* received the call receives no further message
C25_TurnEndsOnFirstEnd ==
    \A i \in 1..Len(Effects) :
        ReceivedAt(i, "END_FRAMEBOUNDARY") =>
            \A j \in (i + 1)..Len(Effects) : Effects[j][1] # "recv"

\* The i-th effect of the call is that one
EffectAt(i, kind, what) == i \in 1..Len(Effects) /\ Effects[i] = <<kind, what>>

\* C26: "loading succeeded" is sent only when execution resumes from a
\* restore (restoreInProgress is set); what follows it is a receive, before
\* anything else is done, and when the configuration message is received the
\* shared configuration is overwritten and then the frame counter and time
\* are sent; after a fresh capture the next thing the call does is to receive
\* the next message of the loop
C26_ResyncInOrder ==
    /\ \A i \in 1..Len(Effects) :
          EffectAt(i, "send", "LOADING_SUCCEEDED") =>
             /\ EffectAt(i - 1, "do", "restore")
             /\ i < Len(Effects) => Effects[i + 1][1] = "recv"
             /\ EffectAt(i + 1, "recv", "CONFIG") =>
                   /\ EffectAt(i + 2, "do", "shared_config")
                   /\ EffectAt(i + 3, "send", "FRAMECOUNT_TIME")
             /\ i = Len(Effects) => restoreInProgress /\ fpc = "resync"
    /\ \A i \in 1..Len(Effects) :
          EffectAt(i, "do", "checkpoint") =>
             /\ i < Len(Effects) => Effects[i + 1][1] = "recv"
             /\ i = Len(Effects) => ~restoreInProgress /\ fpc = "loop"

\* C26 witness: a call has captured a snapshot and gone on with the loop, has
\* then restored it and has just finished the resynchronization
C26_Witness ==
    /\ restores = 1
    /\ \E i \in 1..Len(Effects) : EffectAt(i, "do", "checkpoint") /\ i < Len(Effects)
    /\ \E i \in 1..Len(Effects) :
          /\ EffectAt(i, "send", "LOADING_SUCCEEDED")
          /\ EffectAt(i + 1, "recv", "CONFIG")
          /\ i + 3 = Len(Effects)

\* The step receives, as the message that follows "loading succeeded", a
\* message that is not the configuration message
ResyncGetsOther ==
    /\ fpc = "resync"
    /\ Len(Effects') > Len(Effects)
    /\ Effects'[Len(Effects) + 1] = <<"recv", "OTHER">>

\* C27: when the message that follows "loading succeeded" is not the
\* configuration message, the failure is reported and the shared
\* configuration is left as it was
C27_UnexpectedNotStored ==
    [][ResyncGetsOther =>
          /\ Effects'[Len(Effects) + 2] = <<"do", "MYASSERT">>
          /\ shared_config' = shared_config]_vars

\* The places of the call's record where a message was received
Receipts == {i \in 1..Len(Effects) : Effects[i][1] = "recv"}

\* The places of the call's record where a message was sent or received
Exchanges == {i \in 1..Len(Effects) : Effects[i][1] \in {"send", "recv"}}

\* C28: the order of the effects of one frameBoundary call: the frame counter
\* is incremented first; enterFrameBoundary comes next, before any message is
\* sent or received, and is called once; the start-of-frame marker is the last
\* message sent before the first receive; the skip decision comes after the
\* last message the receive loop gets; exitFrameBoundary is called once, as
\* the last effect of a call that returns, and not before
C28_EffectsInOrder ==
    /\ Len(Effects) > 0 => Effects[1] = <<"do", "++framecount">>
    /\ \A i \in 1..Len(Effects) : EffectAt(i, "timer", "enterFrameBoundary") <=> i = 2
    /\ \A i \in Exchanges : i > 2
    /\ Receipts # {} => EffectAt(Min(Receipts) - 1, "send", "START_FRAMEBOUNDARY")
    /\ \A i \in 1..Len(Effects) :
          EffectAt(i, "do", "skipDraw") =>
             /\ \A j \in Receipts : j < i
             /\ Effects[i - 1] \in {<<"recv", "END_FRAMEBOUNDARY">>, <<"recv", "UNKNOWN">>}
             /\ EffectAt(i + 1, "timer", "exitFrameBoundary")
    /\ \A i \in 1..Len(Effects) :
          EffectAt(i, "timer", "exitFrameBoundary") =>
             i = Len(Effects) /\ EffectAt(i - 1, "do", "skipDraw")
    /\ (fpc = "idle" /\ calls > 0) <=> EffectAt(Len(Effects), "timer", "exitFrameBoundary")

\* C28 witness: a call that sent the backtrack notification, received a
\* ramwatch, the message that follows the ramwatches and a configuration, and
\* has returned
C28_Witness ==
    /\ fpc = "idle"
    /\ \E i \in 1..Len(Effects) : EffectAt(i, "send", "DO_BACKTRACK_SAVESTATE")
    /\ \E i \in 1..Len(Effects) : EffectAt(i, "recv", "RAMWATCH")
    /\ \E i \in 1..Len(Effects) : EffectAt(i, "recv", "CONFIG")
    /\ EffectAt(Len(Effects), "timer", "exitFrameBoundary")

\* The step is the start of a frameBoundary call that sends the "perform
\* backtrack snapshot" notification
SendsBacktrack ==
    fpc = "idle" /\ fpc' = "first" /\ sent'["DO_BACKTRACK_SAVESTATE"] > 0

\* C29: the backtrack notification is sent at most once in a call, and only
\* by a call that found a backtrack snapshot requested since the previous
\* call and a snapshot capture handled before
C29_BacktrackOnlyAfterSavestate ==
    [][/\ sent'["DO_BACKTRACK_SAVESTATE"] <= 1
       /\ sent'["DO_BACKTRACK_SAVESTATE"] > sent["DO_BACKTRACK_SAVESTATE"] => SendsBacktrack
       /\ SendsBacktrack => saveBacktrack /\ didASavestate /\ snapshot.valid]_vars

\* C29 witness: the second call has sent the notification: a snapshot was
\* captured in the first call and a backtrack snapshot requested after it
C29_Witness ==
    /\ calls = 2
    /\ fpc = "first"
    /\ sent["DO_BACKTRACK_SAVESTATE"] = 1
    /\ didASavestate
    /\ ~saveBacktrack

\* The smallest power of two not below num / (8 * den), as its bit position
EighthRoundedUp(num, den) == CeilLog2(num, 8 * den)

\* The skip frequencies skipDraw may use for fps = num / den, as bit positions
UsedFreqs(num, den) == {AtLeastFour(q) : q \in SkipFreqsOf(num, den)}

\* C30: under a configuration that leaves the decision to the frequency, the
\* skip frequency used for the current fps is a power of two, at least 4,
\* and equal to the smallest power of two not below fps / 8 when that is
\* larger than 4; and a decision not to skip comes after at least 3
\* decisions to skip since the previous one
C30_SkipFrequency ==
    /\ \A k \in UsedFreqs(fps, FpsDen) :
          /\ k \in 2..31
          /\ EighthRoundedUp(fps, FpsDen) > 2 => k = EighthRoundedUp(fps, FpsDen)
    /\ (Effects # <<>> /\ Effects[Len(Effects)] = <<"do", "draw">>) => Len(Effects) >= 4

--------------------------------------------------------------------------
(* Claims on the condition-variable wrappers *)

\* The steps of the record: the call (first) and what it did (the rest)
WaitCalled(op) == trace' # trace /\ trace'.ev # <<>> /\ trace'.ev[1][1] = op

\* The positions of the record of a call at which it did kind
Did(ev, kind) == {i \in 2..Len(ev) : ev[i][1] = kind}

\* C31: pthread_cond_timedwait called on a thread that is not the main
\* logical thread, or under the native wait policy, makes one call of the
\* platform primitive, with the caller's deadline, and leaves the virtual time
\* of the deterministic timer alone; pthread_cond_wait, pthread_cond_signal
\* and pthread_cond_broadcast make one call of the platform function of the
\* same name with the caller's argument and leave the virtual time alone.
C31_PassThrough ==
    [][/\ WaitCalled("pthread_cond_timedwait")
          => LET call == trace'.ev[1][2]
             IN  (~call[1] \/ call[2] = "NATIVE")
                 => /\ Tail(trace'.ev) = <<<<"timedwait", call[3]>>>>
                    /\ ticks' = ticks
       /\ \A op \in PassOps :
            WaitCalled(op)
            => /\ Tail(trace'.ev) = <<<<"orig::" \o op, trace'.ev[1][2]>>>>
               /\ ticks' = ticks]_vars

\* C31 witness: a thread other than the main thread has called
\* pthread_cond_timedwait under the full-infinite policy with a deadline two
\* ticks ahead: the platform wait got that deadline and time stands still
C31_Witness ==
    /\ trace.ev = <<<<"pthread_cond_timedwait", <<FALSE, "FULL_INFINITE", 4, 2>>>>,
                    <<"timedwait", 4>>>>
    /\ ticks = 2

\* C32: on the main thread, one pthread_cond_timedwait call adds a delay to
\* the deterministic timer at most once, of the requested end time minus the
\* virtual time at the call, and only under the full-infinite policy or under
\* the finite policy after its first wait, bounded to 0.1 s from the virtual
\* time, did not return 0; virtual time moves by what was added and by no
\* more. Under the finite policy the call makes at most two waits, each
\* bounded to 0.1 s from the virtual time it is made at, and no unbounded
\* wait; when the first returns 0 nothing is added.
C32_DelayAtMostOnce ==
    [][WaitCalled("pthread_cond_timedwait") /\ trace'.ev[1][2][1]
        => LET policy == trace'.ev[1][2][2]
               abstime == trace'.ev[1][2][3]
               ev == trace'.ev
               delays == Did(ev, "addDelay")
               waits == Did(ev, "timedwait")
           IN  /\ Cardinality(delays) <= 1
               /\ \A i \in delays : ev[i][2] = abstime - ticks
               /\ ticks' = IF delays = {} THEN ticks ELSE ticks + (abstime - ticks)
               /\ delays # {}
                  => \/ policy = "FULL_INFINITE"
                     \/ /\ policy = "FINITE"
                        /\ delays = {4}
                        /\ ev[2] = <<"timedwait", ticks + BoundedWait>>
                        /\ ev[3] = <<"ret", "ETIMEDOUT">>
               /\ policy = "FINITE"
                  => /\ Cardinality(waits) <= 2
                     /\ Did(ev, "wait") = {}
                     /\ ev[2] = <<"timedwait", ticks + BoundedWait>>
                     /\ \A i \in waits \ {2} : ev[i] = <<"timedwait", ticks' + BoundedWait>>
                     /\ ev[3] = <<"ret", "OK">> => delays = {}]_vars

\* C32 witness: under the finite policy the main thread asked, at time 2, for
\* a wait until 4; the first bounded wait timed out, two ticks were added and
\* a second bounded wait was made
C32_Witness ==
    /\ trace.ev = <<<<"pthread_cond_timedwait", <<TRUE, "FINITE", 4, 2>>>>,
                    <<"timedwait", 2 + BoundedWait>>, <<"ret", "ETIMEDOUT">>,
                    <<"addDelay", 2>>, <<"timedwait", 4 + BoundedWait>>>>
    /\ ticks = 4

--------------------------------------------------------------------------
(* Claims on the quit request *)

\* The handling of a message with that tag, received in the loop, completes
Handles(tag) ==
    /\ fpc = "loop"
    /\ Len(trace'.ev) > Len(trace.ev)
    /\ trace'.ev[Len(trace.ev) + 1] = <<"recv", tag>>

\* A quit request was received in the call in progress, or in the last one
QuitReceived == \E i \in 1..Len(Effects) : Effects[i] = <<"recv", "USERQUIT">>

\* The receive loop returns (a restore leaves it for the resumption point of
\* the snapshot, which is inside the loop of the call that took it)
LoopEnds == fpc = "loop" /\ fpc' \notin {"loop", "resync"}

\* What a quit request received in the loop does: the close-window event,
\* the exiting flag, and nothing else; the process goes on, in the loop
QuitOnlyFlags ==
    [][Handles("USERQUIT")
        => /\ trace'.ev = trace.ev \o <<<<"recv", "USERQUIT">>, <<"do", "pushQuitEvent">>>>
           /\ is_exiting'
           /\ fpc' = "loop"
           /\ UNCHANGED <<framecount, didASavestate, skipping_draw, skip_counter,
                          shared_config, fps, saveBacktrack, avencoder, drawFB,
                          snapshot, restoreInProgress, sent, calls, draws, restores,
                          endSeen, ticks, channel>>]_vars

\* The frame boundary returns as it does without a quit request: the skip
\* decision for the next frame is taken and nothing else changes
CompletesNormally ==
    [][(LoopEnds /\ QuitReceived)
        => /\ fpc' = "idle"
           /\ <<skipping_draw', skip_counter'>> \in
                  SkipDraw(shared_config, fps, skip_counter)
           /\ UNCHANGED <<framecount, didASavestate, shared_config, fps,
                          saveBacktrack, is_exiting, avencoder, drawFB, snapshot,
                          restoreInProgress, sent, nmsgs, calls, draws, restores,
                          ticks, channel>>]_vars

\* C33 as stated: a user-quit request received in the receive loop queues a
\* close-window event and sets the exiting flag, and neither ends the process
\* nor the controller's turn: the loop goes on handling messages and ends
\* only when end-of-frame arrives, and the frame boundary then completes
\* normally.
C33_QuitWaitsForEnd ==
    /\ QuitOnlyFlags
    /\ CompletesNormally
    /\ [][(LoopEnds /\ QuitReceived)
           => endSeen' = "end"]_vars

\* C33, amended: a user-quit request received in the receive loop queues a
\* close-window event and sets the exiting flag, and neither ends the process
\* nor the controller's turn: the loop goes on handling messages and ends
\* only when end-of-frame, or a message with an unrecognized tag, arrives, and
\* the frame boundary then completes normally.
C33_QuitWaitsForEndOrUnknown ==
    /\ QuitOnlyFlags
    /\ CompletesNormally
    /\ [][(LoopEnds /\ QuitReceived)
           => endSeen' \in {"end", "unknown"}]_vars

\* C33 witness: a call has returned on end-of-frame after a quit request and
\* then a configuration were handled in its loop
C33_Witness ==
    /\ fpc = "idle" /\ endSeen = "end" /\ is_exiting /\ channel = "up"
    /\ \E i \in 1..Len(Effects) :
          /\ Effects[i] = <<"recv", "USERQUIT">>
          /\ Effects[i + 2] = <<"recv", "CONFIG">>

--------------------------------------------------------------------------
(* Claims on the trampoline and on pthread_create *)

\* The record of OS thread t leaves RUNNING in this step
Finishes(t) ==
    /\ os[t].pc \notin {"none", "done"}
    /\ threads[os[t].slot].state = "RUNNING"
    /\ threads'[os[t].slot].state # "RUNNING"

\* Record s, finished, is handed a new routine in this step
Reassigns(s) ==
    /\ threads[s].state \in {"ZOMBIE", "PARKED"}
    /\ threads'[s].state = "RUNNING"

\* The OS threads that run pthread_start for record s
ThreadsOf(s) == {t \in OsIds : os[t].pc \notin {"none", "done"} /\ os[t].slot = s}

\* C34: in the trampoline the thread-local state of the OS thread is erased
\* only after the routine has completed, and before the record leaves RUNNING
\* for ZOMBIE; so whenever a record is seen ZOMBIE (or PARKED), by a joiner or
\* by anyone, and whenever a record is reassigned, the OS thread that ran its
\* routine holds none of the routine's thread-local values.
C34_TlsErasedBeforeZombie ==
    /\ [][\A t \in OsIds :
            /\ (os[t].pc # "none" /\ os'[t].pc # "done"
                /\ os[t].tls = "dirty" /\ os'[t].tls = "clean")
               => (os[t].pc = "ended" /\ hist[Routine(os[t].slot)].result # "none"
                   /\ threads'[os[t].slot].state = "RUNNING")
            /\ (Finishes(t) /\ os'[t].pc # "done")
               => (os[t].tls = "clean" /\ os[t].pc = "cleaned")]_vars
    /\ [][\A s \in Slots :
            ((\E c \in Callers : cpc[c].stage = "poll" /\ cpc'[c].stage = "detach"
                                   /\ GetThread(threads, cpc[c].id) = s)
             \/ Reassigns(s))
            => \A t \in ThreadsOf(s) : os[t].tls = "clean"]_vars
    /\ [](\A s \in Slots :
            threads[s].state \in {"ZOMBIE", "PARKED"}
            => \A t \in ThreadsOf(s) : os[t].tls = "clean")

\* C34 witness: a routine that stored thread-local values has ended and the
\* values are gone, the record being RUNNING still; a joiner is polling it
C34_Witness ==
    \E t \in OsIds :
        /\ os[t].pc = "cleaned" /\ os[t].tls = "clean"
        /\ threads[os[t].slot].state = "RUNNING"
        /\ recycle_threads
        /\ cpc[MainThread].stage = "poll"
        /\ GetThread(threads, cpc[MainThread].id) = os[t].slot

\* Logical thread l was created on a recycled record: pthread_create returned
\* 0 for it and made no OS thread
Recycled(l) == created >= l /\ spawned < l

\* An OS thread is executing the routine of logical thread l
Runs(l) == \E t \in OsIds : os[t].pc = "routine" /\ Routine(os[t].slot) = l

\* C35: with recycling, every pthread_create that returns 0 by recycling a
\* parked OS thread is eventually followed by that OS thread executing the
\* new routine: the notify_all of create is not lost between the state test
\* of the trampoline and its wait on the condition variable.
C35_RecycledThreadRuns == \A l \in 2..MaxCreates : Recycled(l) ~> Runs(l)

\* C36: with recycling and under fair scheduling, a pthread_join that has
\* come to wait for its target, a thread whose routine returns or exits
\* unless it is held up inside a wrapper, eventually returns, also when the
\* routine of the target calls a lifecycle operation while the joiner polls
\* with the wrapper execution lock held.
C36_JoinReturns ==
    (cpc[MainThread].op = "join" /\ cpc[MainThread].stage = "poll")
    ~> (cpc[MainThread].op = "join" /\ cpc[MainThread].stage = "returned")

--------------------------------------------------------------------------
(* Claims on the wrapper execution lock and the uninitialized-thread count *)

\* C37: pthread_create, pthread_join, pthread_detach, pthread_tryjoin_np and
\* pthread_timedjoin_np release the wrapper execution lock on every return
\* path, whatever they return (0, ESRCH, EINVAL, EBUSY, ETIMEDOUT or the error
\* of a failed thread creation): when a call returns the lock is free, and a
\* thread that is not inside a call does not hold it.
C37_LockReleasedOnReturn ==
    /\ [][\A c \in Callers : Returns(c) => lock' = NoHolder]_vars
    /\ [](\A c \in Callers : cpc[c].stage \in {"none", "returned"} => lock # c)

\* C37 witness: a pthread_timedjoin_np that held the lock while it slept has
\* returned on its time-out path, the target still running, and the lock is
\* free
C37_Witness ==
    /\ cpc[MainThread].stage = "returned" /\ cpc[MainThread].op = "timedjoin"
    /\ cpc[MainThread].ret = "ETIMEDOUT" /\ ~cpc[MainThread].joined
    /\ GetThread(threads, cpc[MainThread].id) # 0
    /\ threads[GetThread(threads, cpc[MainThread].id)].state = "RUNNING"
    /\ lock = NoHolder

\* The records that were handed a routine which their OS thread has not begun
NotBegun ==
    {s \in Slots : /\ threads[s].state = "RUNNING"
                    /\ \E t \in ThreadsOf(s) :
                          os[t].pc \in {"spawned", "check", "prewait", "waiting"}}

\* OS thread t begins its routine in this step
Begins(t) == os[t].pc = "check" /\ os'[t].pc = "routine"

\* C38: the count of uninitialized threads goes up by one in every
\* pthread_create call and comes down by one for that call, either when the
\* child begins the routine or in pthread_create itself when no OS thread
\* could be made (so that a failed call leaves it as it was); nothing else
\* changes it. It is never negative, it is the number of created threads that
\* have not begun their routine, and it is zero when all of them have.
C38_UninitializedCount ==
    /\ [][/\ \A c \in Callers :
               (Returns(c) /\ cpc'[c].op = "create")
               => uninit' = (IF cpc'[c].ret = "OK" THEN uninit + 1 ELSE uninit)
          /\ \A t \in OsIds : Begins(t) => uninit' = uninit - 1
          /\ uninit' # uninit
             => \/ \E c \in Callers : Returns(c) /\ cpc'[c].op = "create"
                \/ \E t \in OsIds : Begins(t)]_vars
    /\ [](uninit >= 0 /\ uninit = Cardinality(NotBegun))

\* C38 witness: two threads were created; one has begun its routine and the
\* other has not: the count is one
C38_Witness ==
    /\ uninit = 1 /\ created = 2
    /\ \E t \in OsIds : os[t].pc = "routine"
    /\ \E t \in OsIds : os[t].pc = "spawned"

--------------------------------------------------------------------------
(* Claims on pthread_exit *)

\* C39: with recycling, the value a routine ends with by calling
\* pthread_exit(retval) (hist, result) is the value kept in the return-value
\* slot of its record once the thread is ZOMBIE, and the value a successful
\* pthread_tryjoin_np or pthread_timedjoin_np stores through its result
\* pointer.
C39_ExitValueStored ==
    /\ \A s \in Slots :
          (threads[s].state = "ZOMBIE" /\ hist[Routine(s)].exited)
          => threads[s].retval = hist[Routine(s)].result
    /\ \A c \in Callers :
          (/\ cpc[c].stage = "returned"
           /\ cpc[c].op \in {"tryjoin", "timedjoin"}
           /\ cpc[c].joined)
          => \E l \in 1..created :
                hist[l].identity = cpc[c].id /\ cpc[c].value = hist[l].result

--------------------------------------------------------------------------
(* Claims on the save-file registry *)

\* No two entries of the list are registered under the same file
OneEntryPerFile ==
    \A i, j \in 1..Len(savefiles) :
        savefiles[i].filename = savefiles[j].filename => i = j

\* The step is a call of renameSaveFile that returns 0
RenameReturnsZero ==
    /\ filecall'.n = filecall.n + 1
    /\ filecall'.op = "rename"
    /\ filecall'.ret = 0

\* The entry that was registered for the old file of the call is now the
\* one entry registered under the new file; same tells whether the claim is
\* made when the two paths name the same file too
EntryMoved(same) ==
    \A i \in 1..Len(savefiles) :
        (/\ IsSameFile(savefiles[i], filecall'.old)
         /\ same \/ CanonicalizeFile(filecall'.old) # CanonicalizeFile(filecall'.new))
        => \E j \in 1..Len(savefiles') :
              /\ savefiles'[j] =
                    [savefiles[i] EXCEPT !.filename = CanonicalizeFile(filecall'.new)]
              /\ \A k \in 1..Len(savefiles') :
                    IsSameFile(savefiles'[k], filecall'.new) => k = j

\* C40: after any sequence of openSaveFile, removeSaveFile and
\* renameSaveFile calls the list holds at most one entry per file; and when
\* renameSaveFile(old, new) returns 0, the entry that was registered for old
\* is registered under new and is the only entry for new, also when old and
\* new name the same file.
C40_OneEntryPerFile ==
    /\ []OneEntryPerFile
    /\ [][RenameReturnsZero => EntryMoved(TRUE)]_vars

\* The same when old and new name different files
RenameToAnotherFile ==
    /\ []OneEntryPerFile
    /\ [][RenameReturnsZero => EntryMoved(FALSE)]_vars

\* A file was registered and renamed to another that was registered too;
\* the call returned 0
RenamedOverAnother ==
    /\ filecall.op = "rename" /\ filecall.ret = 0
    /\ CanonicalizeFile(filecall.old) # CanonicalizeFile(filecall.new)
    /\ \E i \in 1..Len(savefiles) :
          /\ IsSameFile(savefiles[i], filecall.new)
          /\ savefiles[i].id < filecall.n - 1

==========================================================================
